----------------------------- MODULE LineClient -----------------------------
(***************************************************************************)
(* Socket::Client (socket_client.cpp): one descriptor, lines from a socket *)
(* that are looked at (MSG_PEEK) before they are taken out of it, and a    *)
(* send that goes on until everything is sent.                             *)
(*                                                                         *)
(* The peer sends Text, whose bytes are known by their positions, in       *)
(* pieces of any size; a datagram socket keeps the pieces apart and drops  *)
(* what does not fit into the buffer of the call that takes a piece.  The  *)
(* peer may close, and every system call may fail.                         *)
(***************************************************************************)
EXTENDS Integers, Sequences, SequencesExt, FiniteSets, FiniteSetsExt

CONSTANTS
  Text,         (* what the peer sends: a sequence of characters           *)
  Ends,         (* the characters that end a line: \0, \r and \n           *)
  Rooms,        (* the lengths of the buffers callers offer to recv        *)
  Lengths,      (* the lengths of what callers send                        *)
  Descriptors,  (* the numbers socket may return                           *)
  NoSocket,     (* -1                                                      *)
  Running       (* the value of status while this module runs              *)

(* What the instance of a model has to satisfy, assumed by the MC module.  *)
ClientAssumption ==
  /\ Text \in Seq(Range(Text)) /\ NoSocket \notin Descriptors
  /\ Rooms \subseteq Nat \ {0} /\ Lengths \subseteq Nat \ {0}

VARIABLES
  client,       (* the object and the call in progress                     *)
  peer,         (* the connection outside the program                      *)
  status

vars == <<client, peer, status>>

NoCall == [do |-> "none"]
Connected == client.fd # NoSocket
IsEnd(i) == Text[i] \in Ends

(* queue holds the pieces that have arrived, sent how much of Text has;    *)
(* lines is what recv has returned, dropped what the kernel threw away,    *)
(* accepted and reported how much of what was sent the kernel took and how *)
(* much send has returned; open are the descriptors in use.                *)
Fresh(datagram) ==
  [datagram |-> datagram, closed |-> FALSE, sent |-> 0, queue |-> <<>>, lines |-> <<>>,
   dropped |-> {}, accepted |-> 0, reported |-> 0]

Init ==
  /\ client = [fd |-> NoSocket, call |-> NoCall]
  /\ peer = [open |-> {}, line |-> Fresh(FALSE)]
  /\ status = Running

Waiting == status = Running /\ client.call = NoCall
Doing(what) == status = Running /\ client.call.do = what
Finish == client' = [client EXCEPT !.call = NoCall]

(* disconnect forgets the descriptor whether or not close succeeds; the    *)
(* kernel releases it either way.                                          *)
Disconnected ==
  /\ client' = [fd |-> NoSocket, call |-> NoCall]
  /\ peer' = [peer EXCEPT !.open = @ \ {client.fd}]

-----------------------------------------------------------------------------
(* connect, connect_unix and connect_inet: socket, bind for a datagram     *)
(* socket with a name of its own, connect.  If one of them fails, or there *)
(* is a connection already, nothing changes: a new descriptor is closed.   *)
Connect(fd, datagram) ==
  /\ Waiting /\ ~Connected /\ fd \notin peer.open
  /\ client' = [client EXCEPT !.fd = fd]
  /\ peer' = [open |-> peer.open \cup {fd}, line |-> Fresh(datagram)]
  /\ UNCHANGED status

(* disconnect, and has_data if its look at the socket fails.               *)
Disconnect ==
  /\ Waiting /\ Connected
  /\ Disconnected
  /\ UNCHANGED status

-----------------------------------------------------------------------------
(* The peer and the network.                                               *)

Arrive(n) ==
  /\ status = Running /\ Connected /\ ~peer.line.closed
  /\ peer.line.sent + n <= Len(Text)
  /\ peer' = [peer EXCEPT !.line.sent = @ + n,
                          !.line.queue = Append(@, [i \in 1..n |-> peer.line.sent + i])]
  /\ UNCHANGED <<client, status>>

Close ==
  /\ status = Running /\ Connected /\ ~peer.line.closed
  /\ peer' = [peer EXCEPT !.line.closed = TRUE]
  /\ UNCHANGED <<client, status>>

(* What a look at the socket shows of up to n bytes.                       *)
Queued == IF peer.line.datagram THEN peer.line.queue[1] ELSE FlattenSeq(peer.line.queue)
Seen(n) == SubSeq(Queued, 1, Min({n, Len(Queued)}))
Readable == peer.line.queue # <<>>
AtEnd == ~Readable /\ peer.line.closed /\ ~peer.line.datagram

(* Taking n bytes out of it.                                               *)
Taken(n) ==
  LET line == peer.line
      rest == SubSeq(Queued, n + 1, Len(Queued))
  IN IF line.datagram
     THEN [line EXCEPT !.queue = Tail(@), !.dropped = @ \cup ToSet(rest)]
     ELSE [line EXCEPT !.queue = IF rest = <<>> THEN <<>> ELSE <<rest>>]

-----------------------------------------------------------------------------
(* recv with until_eol.                                                    *)

Recv(room, until_eol) ==
  /\ Waiting /\ Connected
  /\ client' = [client EXCEPT !.call =
       [do |-> IF until_eol THEN "peek" ELSE "any", room |-> room, got |-> <<>>,
        want |-> 0, ends |-> 0]]
  /\ UNCHANGED <<peer, status>>

(* Mutant: ends that follow each other are taken at once, and the line     *)
(* after them as well.                                                     *)
LineLengthLast(seen) ==
  LET ends == {i \in 1..Len(seen) : IsEnd(seen[i])}
  IN IF ends = {} THEN Len(seen) ELSE Max(ends)

(* How much of the bytes seen the call takes: up to the first end.         *)
LineLength(seen) ==
  LET ends == {i \in 1..Len(seen) : IsEnd(seen[i])}
  IN IF ends = {} THEN Len(seen) ELSE Min(ends)

Peek ==
  /\ Doing("peek") /\ Readable
  /\ LET seen == Seen(client.call.room)
         n == LineLength(seen)
     IN client' = [client EXCEPT !.call.do = "take", !.call.want = n,
                                 !.call.ends = IF IsEnd(seen[n]) THEN 1 ELSE 0]
  /\ UNCHANGED <<peer, status>>

(* What the call has received is its result.                               *)
With(line, got, asked) ==
  IF got = <<>> THEN line
  ELSE [line EXCEPT !.lines = Append(@, [bytes |-> got, asked |-> asked])]
Returns(line, got, asked) ==
  /\ Finish
  /\ peer' = [peer EXCEPT !.line = With(line, got, asked)]
  /\ UNCHANGED status

PeekEnd ==
  /\ Doing("peek") /\ AtEnd
  /\ Returns(peer.line, client.call.got, TRUE)

(* The bytes are still there, but a system call may give fewer than it was *)
(* asked for; it goes on unless at most the end of the line is missing.    *)
Take ==
  /\ Doing("take")
  /\ LET call == client.call
     IN \E n \in 1..call.want :
          LET got == call.got \o SubSeq(Queued, 1, n)
          IN IF n >= call.want - call.ends
             THEN Returns(Taken(n), got, TRUE)
             ELSE /\ client' = [client EXCEPT !.call.do = "peek", !.call.got = got,
                                              !.call.room = @ - n]
                  /\ peer' = [peer EXCEPT !.line = Taken(n)]
                  /\ UNCHANGED status

(* recv without until_eol.                                                 *)
TakeAny ==
  /\ Doing("any") /\ Readable
  /\ LET seen == Seen(client.call.room) IN Returns(Taken(Len(seen)), seen, FALSE)

TakeNone ==
  /\ Doing("any") /\ AtEnd
  /\ Returns(peer.line, <<>>, FALSE)

(* peek, recv or send fails: what was received before is returned, what    *)
(* was sent before reported, and the descriptor closed.                    *)
Fails ==
  /\ status = Running /\ client.call # NoCall
  /\ client' = [fd |-> NoSocket, call |-> NoCall]
  /\ LET call == client.call
     IN peer' = [open |-> peer.open \ {client.fd},
                 line |-> IF call.do = "send"
                          THEN [peer.line EXCEPT !.reported = @ + call.sent]
                          ELSE With(peer.line, call.got, call.do # "any")]
  /\ UNCHANGED status

-----------------------------------------------------------------------------
(* send, with or without retry.                                            *)

Send(length, retry) ==
  /\ Waiting /\ Connected /\ peer.line.accepted = 0
  /\ client' = [client EXCEPT !.call =
       [do |-> "send", left |-> length, sent |-> 0, retry |-> retry]]
  /\ UNCHANGED <<peer, status>>

SendSome ==
  /\ Doing("send")
  /\ LET call == client.call
     IN \E n \in 1..call.left :
          IF n < call.left /\ call.retry
          THEN /\ client' = [client EXCEPT !.call.left = @ - n, !.call.sent = @ + n]
               /\ peer' = [peer EXCEPT !.line.accepted = @ + n]
               /\ UNCHANGED status
          ELSE /\ Finish
               /\ peer' = [peer EXCEPT !.line.accepted = @ + n,
                                       !.line.reported = @ + call.sent + n]
               /\ UNCHANGED status

Next ==
  \/ \E fd \in Descriptors, datagram \in BOOLEAN : Connect(fd, datagram)
  \/ Disconnect
  \/ \E n \in 1..Len(Text) : Arrive(n)
  \/ Close
  \/ \E room \in Rooms, until_eol \in BOOLEAN : Recv(room, until_eol)
  \/ Peek
  \/ PeekEnd
  \/ Take
  \/ TakeAny
  \/ TakeNone
  \/ Fails
  \/ \E length \in Lengths, retry \in BOOLEAN : Send(length, retry)
  \/ SendSome

Spec == Init /\ [][Next]_vars

-----------------------------------------------------------------------------
(***************************************************************************)
(* What recv has returned, what it has in hand and what is in the queue    *)
(* are the bytes that arrived, each once and in their order, but for those *)
(* of datagrams that were taken in part; a line that is asked for holds an *)
(* end of line in its last place only; send reports what the kernel took;  *)
(* and no descriptor is left open but that of the client.                  *)
(***************************************************************************)
Got == IF client.call.do \in {"peek", "take", "any"} THEN client.call.got ELSE <<>>

Delivers ==
  status = Running =>
    LET line == peer.line
        bytes == FlattenSeq([i \in 1..Len(line.lines) |-> line.lines[i].bytes]) \o Got \o FlattenSeq(line.queue)
    IN /\ \A i \in 1..(Len(bytes) - 1) : bytes[i] < bytes[i + 1]
       /\ ToSet(bytes) = (1..line.sent) \ line.dropped
       /\ ~line.datagram => line.dropped = {}
       /\ \A i \in 1..Len(line.lines) : line.lines[i].asked =>
            \A k \in 1..(Len(line.lines[i].bytes) - 1) : ~IsEnd(line.lines[i].bytes[k])
       /\ \A k \in 1..Len(Got) : ~IsEnd(Got[k])
       /\ line.accepted = line.reported + (IF client.call.do = "send" THEN client.call.sent ELSE 0)
       /\ peer.open = {client.fd} \ {NoSocket}

=============================================================================
