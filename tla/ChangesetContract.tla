-------------------------- MODULE ChangesetContract --------------------------
(***************************************************************************)
(* What the upload of a changeset promises to whoever calls apply(),       *)
(* without threads, queues or splits: the change of an element reaches the *)
(* map at most once, is acknowledged if and only if it has, and a report   *)
(* about an element is never taken back.  OsmApiWriter implements it.      *)
(***************************************************************************)
EXTENDS FiniteSets

CONSTANTS
    Element,
    Gone          \* elements whose deletion the API has done already

VARIABLES
    report,       \* of each element: "waiting", "sent", "final" or "failed"
    applied,      \* the elements whose change is in the map
    answering,    \* the applied ones of which the uploader is being told
    abandoned     \* apply() has given up on whatever was not reported

vars == <<report, applied, answering, abandoned>>

Open == {"waiting", "sent"}

Init ==
    /\ report = [e \in Element |-> "waiting"]
    /\ applied = {} /\ answering = {}
    /\ abandoned = FALSE

\* Elements are sent, come back unsent or fail, as long as they are not applied.
Arrange ==
    /\ \A e \in Element :
         report'[e] # report[e] =>
           report[e] \in Open /\ report'[e] \in Open \cup {"failed"} /\ e \notin applied
    /\ DOMAIN report' = Element
    /\ UNCHANGED <<applied, answering, abandoned>>

\* The API applies a changeset of which it has applied nothing before.
Apply ==
    \E S \in (SUBSET Element) \ {{}} :
      /\ S \cap applied = {}
      /\ \A e \in S : report[e] = "sent"
      /\ applied' = applied \cup S
      /\ answering' = answering \cup S
      /\ UNCHANGED <<report, abandoned>>

\* The answer arrives: all the changeset is final.
Acknowledge ==
    \E S \in SUBSET answering :
      /\ \A e \in S : report[e] = "sent"
      /\ report' = [e \in Element |-> IF e \in S THEN "final" ELSE report[e]]
      /\ answering' = answering \ S
      /\ UNCHANGED <<applied, abandoned>>

\* A deletion that was not needed is final as well.
Skip ==
    \E e \in Gone \ applied :
      /\ report[e] = "sent"
      /\ report' = [report EXCEPT ![e] = "final"]
      /\ UNCHANGED <<applied, answering, abandoned>>

\* apply() reports all that is open as failed.  Threads that are still at work
\* may then do as they please: nothing is promised any more.
GiveUp ==
    /\ ~abandoned /\ abandoned' = TRUE
    /\ report' = [e \in Element |-> IF report[e] \in Open THEN "failed" ELSE report[e]]
    /\ UNCHANGED <<applied, answering>>

Abandoned == abandoned /\ abandoned'

Next == Arrange \/ Apply \/ Acknowledge \/ Skip \/ GiveUp \/ Abandoned

Spec == Init /\ [][Next]_vars
=============================================================================
