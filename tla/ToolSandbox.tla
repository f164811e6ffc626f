---------------------------- MODULE ToolSandbox -----------------------------
(***************************************************************************)
(* The sandboxed tools of agent and security scenarios                     *)
(* (execution/sandbox.py).  A tool call is [tool, args]; args says what    *)
(* the sandbox can tell of the arguments:                                  *)
(*   "text"       not a JSON object                                        *)
(*   "invalid"    an object its schema refuses                             *)
(*   "plain"      valid, and "confirmed" is not true                       *)
(*   "confirmed"  valid, with "confirmed": true                            *)
(***************************************************************************)
EXTENDS Sequences, SequencesExt, Selection

CONSTANTS
  Tool,          (* the tools the scenario declares                          *)
  Guarded        (* those that require confirmation                          *)

ArgumentKind == {"text", "invalid", "plain", "confirmed"}

(* "confirmed" is removed before the schema is applied *)
Valid(call) == call.args \in {"plain", "confirmed"}

(* slip: any value of "confirmed" counts *)
ErrorIfUnasked(call) ==
  CASE call.tool \notin Tool -> "unknown_tool"
    [] call.tool \in Tool /\ ~Valid(call) -> "invalid_arguments"
    [] OTHER -> "none"

(* error of the record that ToolSandbox.call appends *)
ErrorOf(call) ==
  CASE call.tool \notin Tool -> "unknown_tool"
    [] call.tool \in Tool /\ ~Valid(call) -> "invalid_arguments"
    [] call.tool \in Guarded /\ call.args = "plain" -> "confirmation_required"
    [] OTHER -> "none"

(* The calls of one reply, run in order: their records, and the calls that had   *)
(* their effects.  Such a call stands for all the effects its contract declares, *)
(* however many: ToolSandbox.call appends them together.                         *)
Recorded(calls) == [n \in DOMAIN calls |-> [call |-> calls[n], error |-> ErrorOf(calls[n])]]
Effects(calls)  == Select(calls, {c \in Range(calls) : ErrorOf(c) = "none"})
=============================================================================
