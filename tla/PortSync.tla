------------------------------ MODULE PortSync ------------------------------
(***************************************************************************)
(* portsync.Run: every interval one pass asks gluetun for the forwarded    *)
(* port and qBittorrent for its listen port, and sets the latter when they *)
(* differ.  Both services change under it, calls fail, and a request to    *)
(* set the port may be carried out after the loop has given up on it.      *)
(***************************************************************************)
EXTENDS Naturals

CONSTANTS
    Ports,          \* ports the VPN provider may forward, and 0
    FirstListen,    \* qBittorrent's port when it is set up
    MaxUpsets       \* bound on changes from outside, failed calls, restarts

PortSyncAssumption ==
    /\ Ports \subseteq Nat /\ 0 \in Ports
    /\ FirstListen \in Nat
    /\ MaxUpsets \in Nat

VARIABLES
    forwarded,      \* gluetun's port, 0 for none yet
    listen,         \* qBittorrent's
    syncPc,         \* what the loop does next
    port,           \* syncOnce's port
    late,           \* requests to set the port that are still under way
    upsets

vars == <<forwarded, listen, syncPc, port, late, upsets>>

TypeOK ==
    /\ forwarded \in Ports
    /\ listen \in Ports \cup {FirstListen}
    /\ syncPc \in {"interval", "forwarded", "listen", "set"}
    /\ port \in Ports
    /\ late \subseteq Ports
    /\ upsets \in 0 .. MaxUpsets

Init ==
    /\ forwarded = 0
    /\ listen = FirstListen
    /\ syncPc = "forwarded"
    /\ port = 0
    /\ late = {}
    /\ upsets = 0

Upset == upsets < MaxUpsets /\ upsets' = upsets + 1

-----------------------------------------------------------------------------
(* The ticker fires; Run's first pass needs none.                          *)
Tick ==
    /\ syncPc = "interval"
    /\ syncPc' = "forwarded"
    /\ UNCHANGED <<forwarded, listen, port, late, upsets>>

GetForwardedPort ==
    /\ syncPc = "forwarded"
    /\ port' = forwarded
    /\ syncPc' = IF forwarded > 0 THEN "listen" ELSE "interval"
    /\ UNCHANGED <<forwarded, listen, late, upsets>>

(* The comparison is with what qBittorrent says now, whoever set it.       *)
DiffersFromFirst == listen = FirstListen
Differs == listen # port

GetListenPort ==
    /\ syncPc = "listen"
    /\ syncPc' = IF Differs THEN "set" ELSE "interval"
    /\ UNCHANGED <<forwarded, listen, port, late, upsets>>

SetListenPort ==
    /\ syncPc = "set"
    /\ listen' = port
    /\ syncPc' = "interval"
    /\ UNCHANGED <<forwarded, port, late, upsets>>

(* A failed call ends the pass, never the loop; a POST that timed out may  *)
(* reach qBittorrent later.                                                *)
CallFails ==
    /\ syncPc \in {"forwarded", "listen", "set"}
    /\ Upset
    /\ syncPc' = "interval"
    /\ late' \in {late} \cup (IF syncPc = "set" THEN {late \cup {port}} ELSE {})
    /\ UNCHANGED <<forwarded, listen, port>>

-----------------------------------------------------------------------------
(* Around the loop.                                                        *)

LateSet(p) ==
    /\ p \in late
    /\ late' = late \ {p}
    /\ listen' = p
    /\ UNCHANGED <<forwarded, syncPc, port, upsets>>

LateLost(p) ==
    /\ p \in late
    /\ late' = late \ {p}
    /\ UNCHANGED <<forwarded, listen, syncPc, port, upsets>>

(* The tunnel comes up, goes down or gets another port.                    *)
Forward(p) ==
    /\ p # forwarded
    /\ Upset
    /\ forwarded' = p
    /\ UNCHANGED <<listen, syncPc, port, late>>

(* Somebody sets the port in qBittorrent, or its configuration is reset.   *)
ListenElsewhere ==
    /\ Upset
    /\ listen' \in {FirstListen} \cup (Ports \ {0})
    /\ UNCHANGED <<forwarded, syncPc, port, late>>

Restart ==
    /\ Upset
    /\ syncPc' = "forwarded"
    /\ port' = 0
    /\ UNCHANGED <<forwarded, listen, late>>

LoopStep == Tick \/ GetForwardedPort \/ GetListenPort \/ SetListenPort

Next ==
    \/ LoopStep \/ CallFails
    \/ \E p \in Ports : LateSet(p) \/ LateLost(p) \/ Forward(p)
    \/ ListenElsewhere \/ Restart

Spec == Init /\ [][Next]_vars

(* The ticker fires, calls answer or fail, and what is under way arrives   *)
(* or does not.                                                            *)
Fairness == WF_vars(LoopStep) /\ WF_vars(\E p \in Ports : LateSet(p) \/ LateLost(p))
FairSpec == Spec /\ Fairness

-----------------------------------------------------------------------------
(* Properties.                                                             *)

(* "portsync keeps qBittorrent's listen port equal to the port gluetun     *)
(* forwarded": once the upsets end, the two agree and go on agreeing.      *)
PortsAgree == <>[](forwarded > 0 => listen = forwarded)
=============================================================================
