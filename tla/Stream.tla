------------------------------- MODULE Stream -------------------------------
(***************************************************************************)
(* BufferStream, OutputStream and Log (stream/buffer.cpp, stream/*.hpp,    *)
(* log.cpp): a buffer that is flushed when it is full.                     *)
(*                                                                         *)
(* flush is virtual: that of BufferStream does nothing, that of            *)
(* OutputStream writes the buffer to a descriptor, that of Log either      *)
(* drops it or first puts a colour reset into the very buffer it flushes,  *)
(* which may fill it and call flush again.  Hence the calls in progress    *)
(* are a stack of frames, the innermost first:                             *)
(*   [do |-> "put", bytes]   write, write_str and operator<<, byte by byte *)
(*   [do |-> "flush"]        a call of flush                               *)
(*   [do |-> "drain", at]    the loop of OutputStream::flush               *)
(*   [do |-> "entry", level] Log::entry after its flush                    *)
(*                                                                         *)
(* The bytes callers write are 1, 2, 3, ... in the order of their calls;   *)
(* those of a colour reset are 0.                                          *)
(***************************************************************************)
EXTENDS Integers, Sequences, SequencesExt, FiniteSets

CONSTANTS
  Classes,      (* which of the three classes there are                    *)
  Length,       (* _len, the length of the buffer                          *)
  Texts,        (* the lengths of what callers write at once (a bound)     *)
  MaxBytes,     (* how much callers write at all (a bound)                 *)
  TopLevel,     (* the greatest level of Log, TRACE; NONE is 0             *)
  ResetBytes,   (* the length of the colour reset                          *)
  MayFail,      (* whether write may fail                                  *)
  Running       (* the value of status while this module runs              *)

(* What the instance of a model has to satisfy, assumed by the MC module.  *)
StreamAssumption ==
  /\ Classes \subseteq {"BufferStream", "OutputStream", "Log"}
  /\ Length \in Nat \ {0, 1} /\ Texts \subseteq Nat \ {0} /\ MaxBytes \in Nat
  /\ TopLevel \in Nat \ {0} /\ ResetBytes \in Nat /\ MayFail \in BOOLEAN

VARIABLES
  stream,       (* the object and the calls in progress                    *)
  outside,      (* what arrived, and what became of the bytes              *)
  status

vars == <<stream, outside, status>>

None == 0
Idle == stream.stack = <<>>
Top == Head(stream.stack)
Below == Tail(stream.stack)
Doing(what) == ~Idle /\ Top.do = what

PutFrame(bytes) == [do |-> "put", bytes |-> bytes]
FlushFrame == [do |-> "flush"]
DrainFrame(at) == [do |-> "drain", at |-> at]
EntryFrame(level) == [do |-> "entry", level |-> level]

(* A put of nothing returns at once.                                       *)
Putting(bytes) == IF bytes = <<>> THEN <<>> ELSE <<PutFrame(bytes)>>

(* The bytes of callers among these.                                       *)
Own(bytes) == ToSet(bytes) \ {0}
Fresh(n) == [i \in 1..n |-> Len(outside.level) + i]

(* The history: level[b] is the severity when byte b was written, hidden   *)
(* pairs bytes Log has dropped with the limit at that time, gone holds     *)
(* those lost to failed writes, clear and the destructor, and filling      *)
(* those with which setw filled up a character to its right.               *)
Init ==
  /\ \E class \in Classes :
       stream = [class |-> class, buf |-> <<>>, stack |-> <<>>,
                 severity |-> TopLevel, limit |-> TopLevel - 1, terminal |-> TRUE]
  /\ outside = [sink |-> <<>>, level |-> <<>>, hidden |-> {}, gone |-> {}, noroom |-> {},
                filling |-> {}]
  /\ status = Running

(* Callers go on with n new bytes and then with the frames.                *)
Calls(n, frames) ==
  /\ stream' = [stream EXCEPT !.stack = Putting(Fresh(n)) \o frames]
  /\ outside' = [outside EXCEPT !.level = @ \o [i \in 1..n |-> stream.severity]]
  /\ UNCHANGED status

Affordable(n) == Len(outside.level) + n <= MaxBytes

-----------------------------------------------------------------------------
(* What callers do.                                                        *)

(* operator<< and write, with what setw fills up a string, a number, and   *)
(* the left of a character with.                                           *)
Write(n) ==
  /\ status = Running /\ Idle /\ Affordable(n)
  /\ Calls(n, <<>>)

(* endl and format: what they write is flushed.                            *)
WriteAndFlush(n) ==
  /\ status = Running /\ Idle /\ Affordable(n)
  /\ Calls(n, <<FlushFrame>>)

(* operator<< of a character that setw fills up to its right, alone or in  *)
(* a call that flushes in the end.  A character that fills the buffer is   *)
(* followed by its filling before the buffer is flushed.  Nothing is in    *)
(* progress yet, so that there is no room for the character itself only if *)
(* flush does nothing; and where the filling has room for its beginning,   *)
(* write flushes in time, and the last question finds nothing to flush.    *)
WriteChar(n, frames) ==
  /\ status = Running /\ Idle /\ Affordable(n)
  /\ LET room == Len(stream.buf) + 1 < Length
         full == Len(stream.buf) + 2 >= Length
         dropped == IF ~room THEN Fresh(n) ELSE IF full THEN Tail(Fresh(n)) ELSE <<>>
     IN /\ stream' = [stream EXCEPT
             !.buf = IF room THEN Append(@, Head(Fresh(n))) ELSE @,
             !.stack = (IF full THEN <<FlushFrame>> ELSE Putting(Tail(Fresh(n)))) \o frames]
        /\ outside' = [outside EXCEPT !.level = @ \o [i \in 1..n |-> stream.severity],
                                      !.filling = @ \cup ToSet(Tail(Fresh(n))),
                                      !.noroom = @ \cup ToSet(dropped)]
  /\ UNCHANGED status

Flush ==
  /\ status = Running /\ Idle
  /\ Calls(0, <<FlushFrame>>)

(* clear; and the destructor: ~BufferStream calls the flush of its own     *)
(* class, which does nothing, so that the buffer goes with the stream.     *)
Clear ==
  /\ status = Running /\ Idle
  /\ stream' = [stream EXCEPT !.buf = <<>>]
  /\ outside' = [outside EXCEPT !.gone = @ \cup ToSet(stream.buf)]
  /\ UNCHANGED status

IsLog == stream.class = "Log"
Visible(level) == level <= stream.limit

(* Log::set                                                                *)
SetLimit(limit) ==
  /\ status = Running /\ Idle /\ IsLog
  /\ stream' = [stream EXCEPT !.limit = limit]
  /\ UNCHANGED <<outside, status>>

(* Log::output: the descriptor is exchanged without a flush.               *)
Output(terminal) ==
  /\ status = Running /\ Idle /\ IsLog
  /\ stream' = [stream EXCEPT !.terminal = terminal]
  /\ UNCHANGED <<outside, status>>

(* Mutant: the severity of the next entry is set before the flush.         *)
EntryTooEarly(level) ==
  /\ status = Running /\ Idle /\ IsLog /\ Affordable(1)
  /\ stream' = [stream EXCEPT !.stack = <<FlushFrame, EntryFrame(level)>>, !.severity = level]
  /\ UNCHANGED <<outside, status>>

Entry(level) ==
  /\ status = Running /\ Idle /\ IsLog /\ Affordable(1)
  /\ Calls(0, <<FlushFrame, EntryFrame(level)>>)

-----------------------------------------------------------------------------
(* What goes on inside.                                                    *)

(* The end of Log::entry: a visible entry starts with a prefix.            *)
Begin ==
  /\ status = Running /\ Doing("entry")
  /\ stream' = [stream EXCEPT !.severity = Top.level,
                              !.stack = (IF Top.level # None /\ Visible(Top.level)
                                         THEN Putting(Fresh(1)) ELSE <<>>) \o Below]
  /\ outside' = [outside EXCEPT !.level = IF Top.level # None /\ Visible(Top.level)
                                          THEN Append(@, Top.level) ELSE @]
  /\ UNCHANGED status

(* One byte into the buffer, which keeps a place for the final zero; a     *)
(* byte that finds no room is dropped.                                     *)
Put ==
  /\ status = Running /\ Doing("put")
  /\ LET room == Len(stream.buf) + 1 < Length
         byte == Head(Top.bytes)
         rest == Putting(Tail(Top.bytes)) \o Below
         fills == room /\ Len(stream.buf) + 2 = Length
     IN /\ stream' = [stream EXCEPT !.buf = IF room THEN Append(@, byte) ELSE @,
                                    !.stack = IF fills THEN <<FlushFrame>> \o rest ELSE rest]
        /\ outside' = [outside EXCEPT !.noroom = IF room THEN @ ELSE @ \cup {byte}]
  /\ UNCHANGED status

FlushNothing ==
  /\ status = Running /\ Doing("flush") /\ stream.class = "BufferStream"
  /\ stream' = [stream EXCEPT !.stack = Below]
  /\ UNCHANGED <<outside, status>>

FlushOutput ==
  /\ status = Running /\ Doing("flush") /\ stream.class = "OutputStream"
  /\ stream' = [stream EXCEPT !.stack = <<DrainFrame(0)>> \o Below]
  /\ UNCHANGED <<outside, status>>

Shown == Visible(stream.severity) /\ stream.severity # None /\ stream.buf # <<>>

(* Log::flush resets the colours of a terminal by way of the buffer.       *)
FlushShown ==
  /\ status = Running /\ Doing("flush") /\ IsLog /\ Shown
  /\ stream' = [stream EXCEPT
       !.stack = (IF stream.terminal THEN Putting([i \in 1..ResetBytes |-> 0]) ELSE <<>>)
                 \o <<DrainFrame(0)>> \o Below]
  /\ UNCHANGED <<outside, status>>

FlushHidden ==
  /\ status = Running /\ Doing("flush") /\ IsLog /\ ~Shown
  /\ stream' = [stream EXCEPT !.buf = <<>>, !.stack = Below]
  /\ outside' = [outside EXCEPT !.hidden = @ \cup (Own(stream.buf) \X {stream.limit})]
  /\ UNCHANGED status

(* The system call takes a part of what it is offered.                     *)
Drain ==
  /\ status = Running /\ Doing("drain") /\ Top.at < Len(stream.buf)
  /\ \E n \in 1..(Len(stream.buf) - Top.at) :
       /\ stream' = [stream EXCEPT !.stack[1].at = @ + n]
       /\ outside' = [outside EXCEPT !.sink = @ \o SubSeq(stream.buf, Top.at + 1, Top.at + n)]
  /\ UNCHANGED status

(* After an error the rest of the buffer is given up.                      *)
DrainFails ==
  /\ status = Running /\ Doing("drain") /\ Top.at < Len(stream.buf) /\ MayFail
  /\ stream' = [stream EXCEPT !.buf = <<>>, !.stack = Below]
  /\ outside' = [outside EXCEPT !.gone = @ \cup ToSet(SubSeq(stream.buf, Top.at + 1, Len(stream.buf)))]
  /\ UNCHANGED status

Drained ==
  /\ status = Running /\ Doing("drain") /\ Top.at >= Len(stream.buf)
  /\ stream' = [stream EXCEPT !.buf = <<>>, !.stack = Below]
  /\ UNCHANGED <<outside, status>>

Next ==
  \/ \E n \in Texts : Write(n)
  \/ \E n \in Texts : WriteAndFlush(n)
  \/ \E n \in Texts, frames \in {<<>>, <<FlushFrame>>} : WriteChar(n, frames)
  \/ Flush
  \/ Clear
  \/ \E limit \in 0..TopLevel : SetLimit(limit)
  \/ \E terminal \in BOOLEAN : Output(terminal)
  \/ \E level \in 0..TopLevel : Entry(level)
  \/ Begin
  \/ Put
  \/ FlushNothing
  \/ FlushOutput
  \/ FlushShown
  \/ FlushHidden
  \/ Drain
  \/ DrainFails
  \/ Drained

Spec == Init /\ [][Next]_vars

-----------------------------------------------------------------------------
(***************************************************************************)
(* What has arrived, the rest of the buffer and what is still to be put    *)
(* into it are the bytes that were written, each once and in their order,  *)
(* but for those that were given up after an error, cleared, or hidden;    *)
(* Log hides only what belongs to an entry above its limit.  Although the  *)
(* flush of Log writes to the buffer and may call itself in the middle of  *)
(* it, a stream that can flush lacks room for nothing of its callers but   *)
(* the filling to the right of a character, which comes before the flush.  *)
(***************************************************************************)
InHand ==
  LET from == IF Doing("drain") THEN Top.at ELSE 0
      pending == FlattenSeq([i \in 1..Len(stream.stack) |->
                   IF stream.stack[i].do = "put" THEN stream.stack[i].bytes ELSE <<>>])
  IN SubSeq(stream.buf, from + 1, Len(stream.buf)) \o pending

Delivers ==
  status = Running =>
    LET bytes == outside.sink \o InHand
        hidden == {h[1] : h \in outside.hidden}
        missing == (outside.gone \cup outside.noroom \cup hidden) \ {0}
    IN /\ \A i, j \in 1..Len(bytes) :
            i < j /\ bytes[i] # 0 /\ bytes[j] # 0 => bytes[i] < bytes[j]
       /\ Own(bytes) = (1..Len(outside.level)) \ missing
       /\ \A h \in outside.hidden : outside.level[h[1]] > h[2] \/ outside.level[h[1]] = None
       /\ stream.class # "BufferStream" => outside.noroom \subseteq {0} \cup outside.filling

=============================================================================
