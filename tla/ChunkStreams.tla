---------------------------- MODULE ChunkStreams ----------------------------
(***************************************************************************)
(* What the server promises on a player's transfer channel, whatever       *)
(* deques it keeps: a file is announced by BEGIN, its chunks follow in     *)
(* order and exactly once, END comes with the last of them, and no chunk   *)
(* of another file comes between the first chunk and the end of a stream.  *)
(* A stream may be given up at any time without a word; only a new BEGIN   *)
(* starts it again.  ServerTransfers implements this specification.        *)
(***************************************************************************)
EXTENDS Naturals, Sequences

CONSTANTS Players, Files,
          Totals                 \* numbers of chunks a file can have

VARIABLES stream,                \* by player and file
          sent                   \* the packets of the last step, by player

vars == <<stream, sent>>

Closed == [next |-> 0, total |-> 0]
Open(total) == [next |-> 0, total |-> total]

Begin(f, n) == [type |-> "begin", file |-> f, number |-> n]
Chunk(f, i) == [type |-> "chunk", file |-> f, number |-> i]
End(f)      == [type |-> "end", file |-> f, number |-> 0]
Cancel(f)   == [type |-> "cancel", file |-> f, number |-> 0]

Quiet == [p \in Players |-> <<>>]
Send(p, msgs) == sent' = [Quiet EXCEPT ![p] = msgs]

Init ==
    /\ stream = [pf \in Players \X Files |-> Closed]
    /\ sent = Quiet

\* A stream starts, or starts again from its first chunk.
Start(p, f) ==
    \E n \in Totals :
        /\ Send(p, <<Begin(f, n)>>)
        /\ stream' = [stream EXCEPT ![<<p, f>>] = Open(n)]

\* The file cannot be had.
Refuse(p, f) ==
    /\ Send(p, <<Cancel(f)>>)
    /\ stream' = [stream EXCEPT ![<<p, f>>] = Closed]

\* The next k chunks, and END when they are the last.
Continue(p, f, k) ==
    LET s      == stream[<<p, f>>]
        chunks == [i \in 1..k |-> Chunk(f, s.next + i - 1)]
    IN /\ s # Closed
       /\ IF s.next + k < s.total
          THEN /\ Send(p, chunks)
               /\ stream' = [stream EXCEPT ![<<p, f>>].next = s.next + k]
          ELSE /\ Send(p, Append(chunks, End(f)))
               /\ stream' = [stream EXCEPT ![<<p, f>>] = Closed]
       /\ \A g \in Files \ {f} : stream[<<p, g>>].next = 0

\* Streams are given up, or nothing happens that the players see.
Abandon ==
    /\ sent' = Quiet
    /\ DOMAIN stream' = Players \X Files
    /\ \A pf \in Players \X Files : stream'[pf] \in {Closed, stream[pf]}

Next ==
    \/ Abandon
    \/ \E p \in Players, f \in Files :
          \/ Start(p, f)
          \/ Refuse(p, f)
          \/ \E k \in 1..(stream[<<p, f>>].total - stream[<<p, f>>].next) :
                Continue(p, f, k)

Spec == Init /\ [][Next]_vars
=============================================================================
