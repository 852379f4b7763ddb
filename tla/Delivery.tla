------------------------------ MODULE Delivery ------------------------------
(***************************************************************************)
(* What a caller of recv_to sees: a file that grows block by block from the *)
(* front, and one answer, which says what the file holds by then.  Session  *)
(* implements it, with an assembler, a channel and a pump in between.       *)
(***************************************************************************)
EXTENDS Naturals, Sequences

CONSTANTS
    Source,     \* the blocks the sender reads, in order
    BlockSize

VARIABLES
    delivered,  \* the blocks written
    answer      \* "pumping", "finishing", or what the call returned

deliveryVars == <<delivered, answer>>

\* The source, its last block padded to BlockSize.
Padded == [i \in 1 .. Len(Source) |-> [no |-> i - 1, bytes |-> BlockSize]]

DeliveryInit == delivered = <<>> /\ answer = "pumping"

\* The next block; padding can be told from data only once Done was heard.
DeliverNext ==
    LET n == Len(delivered) + 1 IN
    /\ answer = "pumping" /\ n <= Len(Source)
    /\ \/ delivered' = Append(delivered, Source[n])
       \/ n = Len(Source) /\ delivered' = Append(delivered, Padded[n])
    /\ UNCHANGED answer

Succeed ==
    /\ answer = "pumping" /\ delivered = Source
    /\ answer' = "ok" /\ UNCHANGED delivered

\* check_byte_total fails only on padding that was written.
Mismatch ==
    /\ answer = "pumping"
    /\ Len(delivered) = Len(Source) /\ delivered # Source
    /\ answer' = "byteCountMismatch" /\ UNCHANGED delivered

Fail ==
    /\ answer = "pumping"
    /\ answer' \in {"senderSilent", "evicted", "fileError"}
    /\ UNCHANGED delivered

\* The caller of recv_stream wants no more.
Finish ==
    /\ \/ answer = "pumping" /\ answer' = "finishing"
       \/ answer = "finishing" /\ answer' = "finished"
    /\ UNCHANGED delivered

DeliveryNext == DeliverNext \/ Succeed \/ Mismatch \/ Fail \/ Finish

DeliverySpec == DeliveryInit /\ [][DeliveryNext]_deliveryVars

\* However the call ends, what was written is the front of the source, but for
\* padding after its last byte.
HoldsTheFront ==
    /\ delivered \in Seq([no : Nat, bytes : Nat]) /\ Len(delivered) <= Len(Source)
    /\ \A i \in 1 .. Len(delivered) :
          \/ delivered[i] = Source[i]
          \/ i = Len(Source) /\ delivered[i] = Padded[i]
=============================================================================
