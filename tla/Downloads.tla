----------------------------- MODULE Downloads ------------------------------
(***************************************************************************)
(* handleDeleteDownload: page through Radarr's queue and then Sonarr's for *)
(* the record of the torrent, remove that record (and with it the torrent, *)
(* blocklisting the release when asked to), or delete the torrent straight *)
(* from qBittorrent when neither has it.  The queues move between pages.   *)
(***************************************************************************)
EXTENDS Naturals, Sequences, SequencesExt, FiniteSets

CONSTANTS
    Hashes,         \* torrents
    Deleters,       \* handler goroutines
    PageSize,       \* queuePageSize
    MaxFailures,    \* bound on failed calls
    MaxMoves        \* bound on changes of the queues by the apps

NoHash == "none"

ASSUME DownloadsAssumption ==
    /\ IsFiniteSet(Hashes) /\ NoHash \notin Hashes
    /\ PageSize \in Nat \ {0}
    /\ MaxFailures \in Nat /\ MaxMoves \in Nat

VARIABLES
    queue,          \* each app's queue: the hashes of its records
    torrents,       \* qBittorrent
    blocklisted,    \* releases an app will not grab again
    deleter,        \* the locals of each handler
    failures, moves

downloadVars == <<queue, torrents, blocklisted, deleter, failures, moves>>

Apps == {"radarr", "sonarr"}
NextApp(a) == IF a = "radarr" THEN "sonarr" ELSE "none"

(* blocklist is the query parameter, all and page are GetAllQueueRecords'. *)
(* The rest is history for the properties: an app had the record from the  *)
(* start to now; a look-up failed; a record left a queue during the paging. *)
DeleterType ==
    [pc : {"idle", "lookup", "item", "torrent"},
     hash : Hashes \cup {NoHash}, blocklist : BOOLEAN,
     app : Apps \cup {"none"}, page : Nat \ {0}, all : Seq(Hashes),
     tracked : BOOLEAN, failed : BOOLEAN, shifted : BOOLEAN]

Idle == [pc |-> "idle", hash |-> NoHash, blocklist |-> FALSE,
         app |-> "none", page |-> 1, all |-> <<>>,
         tracked |-> FALSE, failed |-> FALSE, shifted |-> FALSE]

DownloadTypeOK ==
    /\ queue \in [Apps -> Seq(Hashes)]
    /\ torrents \subseteq Hashes /\ blocklisted \subseteq Hashes
    /\ deleter \in [Deleters -> DeleterType]
    /\ failures \in 0 .. MaxFailures /\ moves \in 0 .. MaxMoves

(* Each torrent was grabbed by Radarr, or by hand in qBittorrent.          *)
DownloadInit ==
    /\ queue \in {q \in [Apps -> SetToSeqs({}) \cup SetToSeqs(Hashes)] : q["sonarr"] = <<>>}
    /\ torrents = Hashes
    /\ blocklisted = {}
    /\ deleter = [d \in Deleters |-> Idle]
    /\ failures = 0
    /\ moves = 0

Tracks(q, hash) == \E a \in Apps : Contains(q[a], hash)

(* The history every step keeps.                                           *)
Seen(d, q) ==
    [d EXCEPT !.tracked = @ /\ Tracks(q, d.hash),
              !.shifted = @ \/ \E a \in Apps : Len(q[a]) < Len(queue[a])]

-----------------------------------------------------------------------------
(* The apps: a download is imported or given up, in whatever place of the  *)
(* queue it is, or one is grabbed.                                         *)

QueueMoves(q) ==
    /\ moves < MaxMoves
    /\ moves' = moves + 1
    /\ queue' = q
    /\ deleter' = [d \in Deleters |-> Seen(deleter[d], q)]
    /\ UNCHANGED <<blocklisted, failures>>

Dequeue(a, i) ==
    /\ i \in DOMAIN queue[a]
    /\ QueueMoves([queue EXCEPT ![a] = RemoveAt(@, i)])
    /\ UNCHANGED torrents

Grab(a, hash) ==
    /\ ~Tracks(queue, hash)
    /\ hash \notin blocklisted
    /\ \E q \in {<<hash>> \o queue[a], Append(queue[a], hash)} :
          QueueMoves([queue EXCEPT ![a] = q])
    /\ torrents' = torrents \cup {hash}

-----------------------------------------------------------------------------
(* The handler.                                                            *)

Goes(d, new) == deleter' = [deleter EXCEPT ![d] = new]

Delete(d, hash, blocklist) ==
    /\ deleter[d].pc = "idle"
    /\ Goes(d, [Idle EXCEPT !.pc = "lookup", !.hash = hash, !.app = "radarr",
                            !.blocklist = blocklist, !.tracked = Tracks(queue, hash)])
    /\ UNCHANGED <<queue, torrents, blocklisted, failures, moves>>

(* On to the other app, or to qBittorrent.                                 *)
TryNext(h) ==
    IF NextApp(h.app) = "none"
    THEN [h EXCEPT !.pc = "torrent"]
    ELSE [h EXCEPT !.app = NextApp(h.app), !.page = 1, !.all = <<>>]

(* GetAllQueueRecords goes on until it has as many as the app says it has. *)
OnePage(records, all, total) == FALSE
MorePages(records, all, total) == records # <<>> /\ Len(all) < total

GetPage(d) ==
    LET h == deleter[d]
        first == (h.page - 1) * PageSize + 1
        records == SubSeq(queue[h.app], first, Min({first + PageSize - 1, Len(queue[h.app])}))
        all == h.all \o records
    IN  /\ h.pc = "lookup"
        /\ Goes(d, CASE MorePages(records, all, Len(queue[h.app])) ->
                          [h EXCEPT !.page = @ + 1, !.all = all]
                     [] OTHER -> IF Contains(all, h.hash)
                                 THEN [h EXCEPT !.pc = "item", !.all = all]
                                 ELSE TryNext([h EXCEPT !.all = all]))
        /\ UNCHANGED <<queue, torrents, blocklisted, failures, moves>>

Fails == failures < MaxFailures /\ failures' = failures + 1

(* "queue lookup failed" is logged, and what was read is not used.         *)
LookupFails(d) ==
    /\ deleter[d].pc = "lookup"
    /\ Fails
    /\ Goes(d, TryNext([deleter[d] EXCEPT !.failed = TRUE]))
    /\ UNCHANGED <<queue, torrents, blocklisted, moves>>

(* The app removes the record, and, as removeFromClient is true, the       *)
(* torrent.                                                                *)
RemovesTorrent(hash) == torrents \ {hash}

ItemRemoved(d) ==
    LET h == deleter[d]
    IN  /\ \E i \in DOMAIN queue[h.app] :
              /\ queue[h.app][i] = h.hash
              /\ queue' = [queue EXCEPT ![h.app] = RemoveAt(@, i)]
        /\ torrents' = RemovesTorrent(h.hash)
        /\ blocklisted' = IF h.blocklist THEN blocklisted \cup {h.hash} ELSE blocklisted
        /\ deleter' = [e \in Deleters |-> IF e = d THEN Idle ELSE Seen(deleter[e], queue')]

(* DELETE is retried, so a lost first answer ends in a 404: removed, but   *)
(* reported as failed, like a record that has gone by itself.              *)
DeleteItem(d) ==
    /\ deleter[d].pc = "item"
    /\ ItemRemoved(d)
    /\ UNCHANGED <<failures, moves>>

DeleteItemFails(d) ==
    /\ deleter[d].pc = "item"
    /\ \/ /\ Fails
          /\ \/ ItemRemoved(d)
             \/ Goes(d, Idle) /\ UNCHANGED <<queue, torrents, blocklisted>>
       \/ /\ ~Contains(queue[deleter[d].app], deleter[d].hash)
          /\ Goes(d, Idle)
          /\ UNCHANGED <<queue, torrents, blocklisted, failures>>
    /\ UNCHANGED moves

(* qBittorrent does not mind a hash it does not have.                      *)
DeleteTorrent(d) ==
    /\ deleter[d].pc = "torrent"
    /\ torrents' = torrents \ {deleter[d].hash}
    /\ Goes(d, Idle)
    /\ UNCHANGED <<queue, blocklisted, failures, moves>>

DeleteTorrentFails(d) ==
    /\ deleter[d].pc = "torrent"
    /\ Fails
    /\ torrents' \in {torrents, torrents \ {deleter[d].hash}}
    /\ Goes(d, Idle)
    /\ UNCHANGED <<queue, blocklisted, moves>>

DownloadNext ==
    \/ \E a \in Apps : \/ \E i \in 1 .. Cardinality(Hashes) : Dequeue(a, i)
                       \/ \E hash \in Hashes : Grab(a, hash)
    \/ \E d \in Deleters :
          \/ \E hash \in Hashes, b \in BOOLEAN : Delete(d, hash, b)
          \/ GetPage(d) \/ LookupFails(d)
          \/ DeleteItem(d) \/ DeleteItemFails(d)
          \/ DeleteTorrent(d) \/ DeleteTorrentFails(d)

DownloadSpec == DownloadInit /\ [][DownloadNext]_downloadVars

-----------------------------------------------------------------------------
(* Properties.                                                             *)

Answered(d) == deleter[d].pc # "idle" /\ deleter'[d].pc = "idle"
TellsDone(d) == Answered(d) /\ failures' = failures
                /\ ~(deleter[d].pc = "item" /\ queue' = queue)

(* 204 means that the torrent is gone, and, when the app had the record    *)
(* all along, both look-ups worked and the queues kept still under them,   *)
(* that the release is blocklisted as asked.                               *)
DoneIsDone ==
    [][\A d \in Deleters : TellsDone(d) =>
          LET h == deleter[d]
          IN  /\ h.hash \notin torrents'
              /\ h.blocklist /\ h.tracked /\ ~h.failed /\ ~h.shifted =>
                     h.hash \in blocklisted']_downloadVars

(* "When Radarr or Sonarr is tracking it, the removal goes through their   *)
(* queue": a torrent deleted directly was not in a queue all the time.     *)
GoesThroughQueue ==
    \A d \in Deleters : deleter[d].pc = "torrent" => ~deleter[d].tracked
=============================================================================
