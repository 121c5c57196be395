------------------------------- MODULE Serve -------------------------------
(***************************************************************************)
(* The two planes of an instance on PostgreSQL (instance.rs, serve and     *)
(* bind_again): opened while the lease of module Lease is held, cut when   *)
(* the lease they were opened under is not the one held, bound again, and  *)
(* stopped for good at an orderly shutdown before the audit chain closes.  *)
(***************************************************************************)
EXTENDS Lease

VARIABLES
  planes,   \* "waiting" for a lease, "binding" again, "open" or "stopped"
  bound,    \* the listeners main handed over are not used up
  opened    \* opened_under: the lease read when the planes were opened

planeVars == <<planes, bound, opened>>
serveVars == <<vars, planeVars>>

ServeInit ==
  /\ Init
  /\ planes = [i \in Instance |-> "waiting"]
  /\ bound = [i \in Instance |-> TRUE]
  /\ opened = [i \in Instance |-> NoId]

\* serve runs once main has its first lease, until the process ends.
Serving(i) == phase[i] \notin {"down", "starting", "first take"}

\* The planes open, under whatever the watch holds at that moment.
OpenPlanes(i) ==
  /\ planes' = [planes EXCEPT ![i] = "open"]
  /\ opened' = [opened EXCEPT ![i] = held[i]]
  /\ bound' = [bound EXCEPT ![i] = FALSE]

\* Mutant: the planes open only on the listeners main bound.
ProceedOnce(i) ==
  /\ Serving(i) /\ planes[i] = "waiting" /\ held[i] # NoId
  /\ bound[i] /\ OpenPlanes(i)
  /\ UNCHANGED vars

\* The inner wait ends with a lease held: the listeners main bound are used
\* at once, later ones are bound again first.
Proceed(i) ==
  /\ Serving(i) /\ planes[i] = "waiting" /\ held[i] # NoId
  /\ \/ bound[i] /\ OpenPlanes(i)
     \/ /\ ~bound[i]
        /\ planes' = [planes EXCEPT ![i] = "binding"]
        /\ UNCHANGED <<bound, opened>>
  /\ UNCHANGED vars

\* bind_again has both addresses; it may have taken any number of tries.
BindAgain(i) ==
  /\ Serving(i) /\ planes[i] = "binding"
  /\ OpenPlanes(i)
  /\ UNCHANGED vars

\* Mutant: only the loss of a lease is watched for, not that another follows.
CutOnLoss(i) ==
  /\ Serving(i) /\ planes[i] = "open"
  /\ held[i] = NoId \/ phase[i] = "ended"
  /\ planes' = [planes EXCEPT ![i] = "waiting"]
  /\ opened' = [opened EXCEPT ![i] = NoId]
  /\ UNCHANGED <<vars, bound>>

\* The watching task: the lease held is not the one opened under, or there will
\* be none any more; every connection is cut and the loop begins again.
Cut(i) ==
  /\ Serving(i) /\ planes[i] = "open"
  /\ held[i] # opened[i] \/ phase[i] = "ended"
  /\ planes' = [planes EXCEPT ![i] = "waiting"]
  /\ opened' = [opened EXCEPT ![i] = NoId]
  /\ UNCHANGED <<vars, bound>>

\* SIGTERM, or no lease any more: drained, and serve returns.
StopPlanes(i) ==
  /\ Serving(i) /\ planes[i] # "stopped"
  /\ planes' = [planes EXCEPT ![i] = "stopped"]
  /\ opened' = [opened EXCEPT ![i] = NoId]
  /\ UNCHANGED <<vars, bound>>

\* A step of Lease: the chain is closed only once serve has returned, and a
\* process that ended starts with planes of its own.
LeaseStep ==
  /\ Next
  /\ \A i \in Instance : closing'[i] => planes[i] = "stopped"
  /\ planes' = [i \in Instance |-> IF phase'[i] = "down" THEN "waiting" ELSE planes[i]]
  /\ bound' = [i \in Instance |-> IF phase'[i] = "down" THEN TRUE ELSE bound[i]]
  /\ opened' = [i \in Instance |-> IF phase'[i] = "down" THEN NoId ELSE opened[i]]

ServeNext ==
  \/ LeaseStep
  \/ \E i \in Instance : Proceed(i) \/ BindAgain(i) \/ Cut(i) \/ StopPlanes(i)

\* The runtime runs the tasks of serve; an address is had at last.  Nothing is
\* assumed of the database, of the operator or of time.
ServeFairness ==
  \A i \in Instance : WF_serveVars(Proceed(i)) /\ WF_serveVars(BindAgain(i))
                      /\ WF_serveVars(Cut(i))

ServeSpec == ServeInit /\ [][ServeNext]_serveVars /\ ServeFairness

-----------------------------------------------------------------------------
\* Planes are cut once the lease they were opened under is lost or followed by
\* another, those opened under none once one stays held: none of their connections
\* outlives the lease it was admitted under (the comment on opened_under in serve).
CutWithLease ==
  \A i \in Instance, id \in Id \cup {NoId} :
    (planes[i] = "open" /\ opened[i] = id /\ held[i] # id)
      ~> (planes[i] # "open" \/ opened[i] # id \/ held[i] = id)

\* An instance that goes on holding a lease has its planes open in the end, also
\* after it lost one and bound its addresses again (doc of serve).
OpensWithLease ==
  \A i \in Instance, id \in Id :
    held[i] = id ~> \/ planes[i] = "open" /\ opened[i] = id
                    \/ held[i] # id
                    \/ planes[i] = "stopped"

\* Planes that are open without a lease are cut, unless a lease is held again ("open
\* only while it is held", doc of serve). What the code does otherwise: a lease lost
\* while bind_again waits leaves planes opened under none, which nobody cuts
\* (ServeUnleased.cfg).
CutWithoutLease ==
  \A i \in Instance :
    (planes[i] = "open" /\ held[i] = NoId) ~> (planes[i] # "open" \/ held[i] # NoId)

=============================================================================
