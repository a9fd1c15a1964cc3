------------------------------ MODULE Channels ------------------------------
(***************************************************************************)
(* What bytes pass through on their way out and in: Stream (a buffer that  *)
(* is flushed) and LineClient (a socket that is looked at before it is     *)
(* read), each on its own.  The initial states are those of both, and      *)
(* status tells which of them runs.                                        *)
(***************************************************************************)
EXTENDS Integers, FiniteSets, Sequences

CONSTANTS
  Classes,      (* Stream: which of its three classes there are            *)
  Capacity,     (* the length of the buffer                                *)
  Texts,        (* the lengths of what callers write at once (a bound)     *)
  MaxBytes,     (* how much callers write at all (a bound)                 *)
  TopLevel,     (* the greatest level of Log                               *)
  ResetBytes,   (* the length of the colour reset                          *)
  MayFail,      (* whether write may fail                                  *)
  Text,         (* LineClient: what the peer sends                         *)
  Ends,         (* the characters that end a line                          *)
  Rooms,        (* the lengths of the buffers callers offer to recv        *)
  Sizes,        (* the lengths of what callers send                        *)
  Descriptors,  (* the numbers socket may return                           *)
  NoSocket      (* -1                                                      *)

VARIABLES obj, out, status
vars == <<obj, out, status>>

S == INSTANCE Stream WITH stream <- obj, outside <- out, Length <- Capacity, Running <- "stream"

C == INSTANCE LineClient WITH client <- obj, peer <- out, Lengths <- Sizes, Running <- "client"

ASSUME ChannelAssumption == S!StreamAssumption /\ C!ClientAssumption

Init == S!Init \/ C!Init
Next ==
  \/ status = "stream" /\ S!Next
  \/ status = "client" /\ C!Next
Spec == Init /\ [][Next]_vars

-----------------------------------------------------------------------------
(* A stream neither loses, repeats nor reorders a byte when its buffer     *)
(* fills up in the middle of a write or of another flush: Stream!Delivers. *)
StreamDelivers == S!Delivers

(* A client that looks before it takes gets every byte once, line by line, *)
(* however the peer cuts them into pieces: LineClient!Delivers.            *)
ClientDelivers == C!Delivers

=============================================================================
