---------------------------- MODULE SessionDeletes ----------------------------
(* What deleting a session promises its user: docs/CLIENT.md, "Deleting a    *)
(* session".  A delete hides the session and can be undone until it commits; *)
(* a committed one never comes back and ends with the bridge closing the     *)
(* session; the phone closes nothing that was not deleted.  A process that   *)
(* dies may lose what it had not written: only then may a life step back.    *)

CONSTANT Sessions

VARIABLES life,      \* session -> Lives
          crashed    \* the phone's process died at least once

(* "closed": by this phone's delete.  "removed": by another device.          *)
Lives == {"open", "hidden", "deleting", "closed", "removed"}

specVars == <<life, crashed>>

SpecInit == /\ life = [s \in Sessions |-> "open"]
            /\ crashed = FALSE

Move(s, from, to) == /\ life[s] \in from
                     /\ life' = [life EXCEPT ![s] = to]

Hide(s) == Move(s, {"open"}, "hidden") /\ UNCHANGED crashed

Undo(s) == Move(s, {"hidden"}, "open") /\ UNCHANGED crashed

Commit(s) == Move(s, {"hidden"}, "deleting") /\ UNCHANGED crashed

Close(s) == Move(s, {"deleting"}, "closed") /\ UNCHANGED crashed

(* Deleting a second session commits the first in the same step.             *)
HideNext(s, t) == /\ s # t
                  /\ life[s] = "hidden" /\ life[t] = "open"
                  /\ life' = [life EXCEPT ![s] = "deleting", ![t] = "hidden"]
                  /\ UNCHANGED crashed

RemoveElsewhere(s) == Move(s, {"open", "hidden", "deleting"}, "removed") /\ UNCHANGED crashed

(* The process dies: what it had not written reverts.  Nothing gone at the   *)
(* bridge comes back.                                                        *)
Crash == /\ crashed' = TRUE
         /\ life' \in [Sessions -> Lives]
         /\ \A s \in Sessions : life[s] \in {"closed", "removed"} <=> life'[s] \in {"closed", "removed"}
         /\ \A s \in Sessions : life[s] \in {"closed", "removed"} => life'[s] = life[s]

(* A close-session sent before the crash may still reach the bridge.         *)
CloseAfterCrash(s) == crashed /\ Move(s, {"open", "hidden", "deleting"}, "closed") /\ UNCHANGED crashed

SpecNext ==
    \/ \E s \in Sessions : \/ Hide(s) \/ Undo(s) \/ Commit(s) \/ Close(s)
                           \/ RemoveElsewhere(s) \/ CloseAfterCrash(s)
    \/ \E s, t \in Sessions : HideNext(s, t)
    \/ Crash

Spec == SpecInit /\ [][SpecNext]_specVars
===============================================================================
