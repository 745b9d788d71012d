---------------------------- MODULE CallService ----------------------------
(***************************************************************************)
(* What a client of the guest's tools may rely on, whatever queues,        *)
(* threads, connections and time limits are between it and the tool: a     *)
(* call is carried out at most once and answered at most once, and an      *)
(* answer with a result has the result of that very call, which has been   *)
(* carried out by then.  A call that fails may have been carried out, or   *)
(* may still be: a failure promises nothing.  The browser service and the  *)
(* stdio transport, each with its guest, implement this.                   *)
(***************************************************************************)
EXTENDS Naturals, Sequences

CONSTANT Calls    \* the calls a client may make, numbers from 1 on

VARIABLES
    done,       \* the calls that have been carried out, in order
    answers     \* the answers, in order: the call, and whose result it has

service == <<done, answers>>

NoResult == 0   \* the answer to a call that failed, or that needs no tool

Done == {done[i] : i \in DOMAIN done}
Answered == {answers[i].call : i \in DOMAIN answers}

ServiceInit == done = <<>> /\ answers = <<>>

CarryOut(n) ==
    /\ n \notin Done
    /\ done' = Append(done, n)
    /\ UNCHANGED answers

Succeed(n) ==
    /\ n \in Done \ Answered
    /\ answers' = Append(answers, [call |-> n, result |-> n])
    /\ UNCHANGED done

Decline(n) ==
    /\ n \notin Answered
    /\ answers' = Append(answers, [call |-> n, result |-> NoResult])
    /\ UNCHANGED done

ServiceNext == \E n \in Calls : CarryOut(n) \/ Succeed(n) \/ Decline(n)

ServiceSpec == ServiceInit /\ [][ServiceNext]_service
=============================================================================
