----------------------------- MODULE MCServices -----------------------------
(***************************************************************************)
(* The small components around the pipeline, which share no state: each    *)
(* behaviour is one of one of them, and the others rest.                   *)
(***************************************************************************)
EXTENDS RetryClient, AdminToken, StatusCache, Downloads

CONSTANTS Ports, FirstListen, MaxUpsets

VARIABLES part, forwarded, listen, syncPc, port, late, upsets

portVars == <<forwarded, listen, syncPc, port, late, upsets>>
allVars == <<part, vars, adminVars, portVars, statusVars, downloadVars>>

Port == INSTANCE PortSync

ASSUME Port!PortSyncAssumption

MCInit ==
    /\ Init /\ AdminInit /\ Port!Init /\ StatusInit /\ DownloadInit
    /\ part \in {"retry", "token", "port", "status", "download"}
    /\ part = "download" \/ queue = [a \in {"radarr", "sonarr"} |-> <<>>]

(* Calls do not know of each other: one is made.                           *)
RetryPart ==
    /\ part = "retry" /\ Next
    /\ \A c, d \in Calls : c = d \/ callPc'[c] = "idle" \/ callPc'[d] = "idle"
    /\ UNCHANGED <<part, adminVars, portVars, statusVars, downloadVars>>
TokenPart ==
    /\ part = "token" /\ AdminNext
    /\ UNCHANGED <<part, vars, portVars, statusVars, downloadVars>>
PortPart ==
    /\ part = "port" /\ Port!Next
    /\ UNCHANGED <<part, vars, adminVars, statusVars, downloadVars>>
StatusPart ==
    /\ part = "status" /\ StatusNext
    /\ UNCHANGED <<part, vars, adminVars, portVars, downloadVars>>
DownloadPart ==
    /\ part = "download" /\ DownloadNext
    /\ UNCHANGED <<part, vars, adminVars, portVars, statusVars>>

MCNext == RetryPart \/ TokenPart \/ PortPart \/ StatusPart \/ DownloadPart

(* The fairness of each component, while it is the one that runs.          *)
MCFairness ==
    /\ \A k \in Callers :
          /\ WF_allVars(TokenPart /\ (LoginWorks(k) \/ LoginFails(k)))
          /\ SF_allVars(TokenPart /\ (UseCached(k) \/ StartLogin(k)))
          /\ WF_allVars(TokenPart /\ (Accepted(k) \/ Rejected(k)))
    /\ WF_allVars(PortPart /\ Port!LoopStep)
    /\ WF_allVars(PortPart /\ \E p \in Ports : Port!LateSet(p) \/ Port!LateLost(p))

MCSpec == MCInit /\ [][MCNext]_allVars /\ MCFairness

-----------------------------------------------------------------------------
(* portsync: the ports agree in the end.                                   *)
PortsAgree == part = "port" => Port!PortsAgree
=============================================================================
