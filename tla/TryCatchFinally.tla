-------------------------- MODULE TryCatchFinally --------------------------
(***************************************************************************)
(* What a caller of Pipeline.Run may rely on, whatever the steps are and   *)
(* however they are decorated: a run ends; no exception leaves it; the     *)
(* catch action runs at most once and only after an unexpected exception;  *)
(* the finally part is passed through once, last, on every path; and the   *)
(* final PipelineState tells which path was taken.                         *)
(***************************************************************************)
CONSTANT Context

VARIABLES phase,    \* [Context -> "idle" | "body" | "catch" | "finally"]
          state,    \* PipelineContext.State
          handlers  \* which of "catch", "finally" the pipeline of the run has

vars == <<phase, state, handlers>>

Init == /\ phase = [c \in Context |-> "idle"]
        /\ state = [c \in Context |-> "None"]
        /\ handlers = [c \in Context |-> {}]

Enter(c, p, s) == /\ phase' = [phase EXCEPT ![c] = p]
                  /\ state' = [state EXCEPT ![c] = s]

Begin(c) == /\ phase[c] = "idle"
            /\ Enter(c, "body", "Running")
            /\ \E h \in SUBSET {"catch", "finally"} :
                  handlers' = [handlers EXCEPT ![c] = h]

BodyEnds(c) == /\ phase[c] = "body"
               /\ Enter(c, "finally", "Done") \/ Enter(c, "finally", "Cancelled")
               /\ UNCHANGED handlers

BodyFails(c) == /\ phase[c] = "body"
                /\ IF "catch" \in handlers[c]
                   THEN Enter(c, "catch", "Ko")
                   ELSE Enter(c, "finally", "Fatal")
                /\ UNCHANGED handlers

CatchEnds(c) == /\ phase[c] = "catch"
                /\ Enter(c, "finally", "Ko") \/ Enter(c, "finally", "Fatal")
                /\ UNCHANGED handlers

FinallyEnds(c) == /\ phase[c] = "finally"
                  /\ \/ Enter(c, "idle", state[c])
                     \/ "finally" \in handlers[c] /\ Enter(c, "idle", "Fatal")
                  /\ UNCHANGED handlers

Advance(c) == BodyEnds(c) \/ BodyFails(c) \/ CatchEnds(c) \/ FinallyEnds(c)
Next == \E c \in Context : Begin(c) \/ Advance(c)

Safe == Init /\ [][Next]_vars
Spec == Safe /\ \A c \in Context : WF_vars(Advance(c))
============================================================================
