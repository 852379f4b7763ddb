----------------------------- MODULE SliceWindow -----------------------------
(***************************************************************************)
(* The sender's window, as the slicer and the send loop share it, with     *)
(* nothing said of channels, shards or parity: blocks fill one slice after *)
(* another, a full slice is sealed, a sealed one is kept until the loop    *)
(* has learned that nobody needs it, and a floor tells receivers which are *)
(* sealed.  Slicer implements it message by message, Transfer with the     *)
(* network and the receivers around it.                                    *)
(***************************************************************************)
EXTENDS Integers, TLAPS

CONSTANTS BlocksPerSlice, MaxLiveSlices

VARIABLES
    sealed,  \* slices sealed, which is the number of the one being filled
    filled,  \* its blocks
    first,   \* the oldest slice kept
    ended,   \* the source has ended
    floor,   \* the slices announced as sealed
    needed   \* the oldest slice somebody needs, as far as the loop knows

windowVars == <<sealed, filled, first, ended, floor, needed>>

WindowInit ==
    sealed = 0 /\ filled = 0 /\ first = 0 /\ ended = FALSE /\ floor = 0 /\ needed = 0

Room == ~ended /\ sealed - first < MaxLiveSlices

\* The floor follows what is sealed, in the same step or later.
Announce == floor' \in floor .. sealed'

Fill ==
    /\ Room
    /\ IF filled + 1 = BlocksPerSlice
       THEN sealed' = sealed + 1 /\ filled' = 0
       ELSE UNCHANGED sealed /\ filled' = filled + 1
    /\ Announce /\ UNCHANGED <<first, ended, needed>>

\* A slice that the end of the source leaves short is sealed too.
End ==
    /\ Room /\ ended' = TRUE
    /\ sealed' = IF filled > 0 THEN sealed + 1 ELSE sealed
    /\ filled' = 0
    /\ Announce /\ UNCHANGED <<first, needed>>

AnnounceLate == Announce /\ UNCHANGED <<sealed, filled, first, ended, needed>>

\* Sealed slices nobody needs are dropped, oldest first.
Drop ==
    /\ first' \in first .. sealed
    /\ first' > first => first' <= needed
    /\ UNCHANGED <<sealed, filled, ended, floor, needed>>

Learn ==
    /\ needed' \in Nat /\ needed' >= needed
    /\ UNCHANGED <<sealed, filled, first, ended, floor>>

WindowNext == Fill \/ End \/ AnnounceLate \/ Drop \/ Learn

WindowSpec == WindowInit /\ [][WindowNext]_windowVars

-----------------------------------------------------------------------------
(* What the window comes to.                                                *)

\* A slice is begun only while there is room for it beside the sealed ones,
\* nothing that is needed was dropped, and nothing is announced that may still
\* grow.
WindowHolds ==
    /\ ended \in BOOLEAN
    /\ sealed \in Nat /\ filled \in 0 .. (BlocksPerSlice - 1)
    /\ first \in 0 .. sealed /\ sealed <= first + MaxLiveSlices
    /\ floor \in 0 .. sealed
    /\ filled > 0 => ~ended /\ sealed < first + MaxLiveSlices
    /\ needed \in Nat /\ first <= needed

\* What was sealed stays as it was, and so does what was dropped, announced or
\* learned; after the end of the source nothing is sealed any more.
WindowMovesOn ==
    [][/\ sealed' >= sealed /\ first' >= first /\ floor' >= floor
       /\ needed' >= needed
       /\ ended => ended' /\ UNCHANGED <<sealed, filled>>]_windowVars

-----------------------------------------------------------------------------
(* Proofs, for every geometry of slices and every size of the window.       *)

\* The source ends once, and nothing is filled or sealed afterwards.
LEMMA EndStep ==
    ASSUME ended \in BOOLEAN, filled > 0 => ~ended, [WindowNext]_windowVars
    PROVE  /\ ended' \in BOOLEAN /\ (filled' > 0 => ~ended')
           /\ ended => ended' /\ UNCHANGED <<sealed, filled>>
<1> USE DEF Room
<1>1. CASE Fill
    BY <1>1 DEF Fill
<1>2. CASE End
    BY <1>2 DEF End
<1>3. CASE AnnounceLate \/ Drop \/ Learn \/ UNCHANGED windowVars
    BY <1>3 DEF AnnounceLate, Drop, Learn, windowVars
<1> QED BY <1>1, <1>2, <1>3 DEF WindowNext

\* The provers take WindowHolds apart: the numbers here, the end above.
NumbersHold ==
    /\ sealed \in Nat /\ filled \in 0 .. (BlocksPerSlice - 1)
    /\ first \in 0 .. sealed /\ sealed <= first + MaxLiveSlices
    /\ floor \in 0 .. sealed
    /\ filled > 0 => sealed < first + MaxLiveSlices
    /\ needed \in Nat /\ first <= needed

LEMMA NumbersStep ==
    ASSUME BlocksPerSlice \in Nat \ {0}, MaxLiveSlices \in Nat \ {0},
           NumbersHold, [WindowNext]_windowVars
    PROVE  /\ NumbersHold'
           /\ sealed' >= sealed /\ first' >= first /\ floor' >= floor
           /\ needed' >= needed
<1> USE DEF NumbersHold
<1>1. CASE Fill
    BY <1>1 DEF Fill, Room, Announce
<1>2. CASE End
    BY <1>2 DEF End, Room, Announce
<1>3. CASE AnnounceLate
    BY <1>3 DEF AnnounceLate, Announce
<1>4. CASE Drop
    <2>1. PICK next \in first .. sealed : first' = next
        BY <1>4 DEF Drop
    <2>2. next <= needed
        BY <1>4, <2>1 DEF Drop
    <2>3. /\ next \in 0 .. sealed /\ next >= first
          /\ sealed <= next + MaxLiveSlices
          /\ filled > 0 => sealed < next + MaxLiveSlices
        BY <2>1
    <2> QED BY <1>4, <2>1, <2>2, <2>3 DEF Drop
<1>5. CASE Learn
    BY <1>5 DEF Learn
<1>6. CASE UNCHANGED windowVars
    BY <1>6 DEF windowVars
<1> QED BY <1>1, <1>2, <1>3, <1>4, <1>5, <1>6 DEF WindowNext

LEMMA WindowStep ==
    ASSUME BlocksPerSlice \in Nat \ {0}, MaxLiveSlices \in Nat \ {0},
           WindowHolds, [WindowNext]_windowVars
    PROVE  /\ WindowHolds'
           /\ sealed' >= sealed /\ first' >= first /\ floor' >= floor
           /\ needed' >= needed
           /\ ended => ended' /\ UNCHANGED <<sealed, filled>>
<1>1. NumbersHold /\ ended \in BOOLEAN /\ (filled > 0 => ~ended)
    BY Zenon DEF WindowHolds, NumbersHold
<1>2. /\ ended' \in BOOLEAN /\ (filled' > 0 => ~ended')
      /\ ended => ended' /\ UNCHANGED <<sealed, filled>>
    BY <1>1, EndStep
<1>3. /\ NumbersHold'
      /\ sealed' >= sealed /\ first' >= first /\ floor' >= floor
      /\ needed' >= needed
    BY <1>1, NumbersStep
<1> QED BY <1>2, <1>3, Zenon DEF WindowHolds, NumbersHold

\* The window holds what is needed and no more than it may (WindowHolds).
THEOREM WindowIsSound ==
    ASSUME BlocksPerSlice \in Nat \ {0}, MaxLiveSlices \in Nat \ {0}
    PROVE  WindowSpec => []WindowHolds
<1>1. WindowInit => WindowHolds
    <2>1. WindowInit => NumbersHold
        BY DEF WindowInit, NumbersHold
    <2>2. WindowInit => ended \in BOOLEAN /\ (filled > 0 => ~ended)
        BY DEF WindowInit
    <2> QED BY <2>1, <2>2, Zenon DEF WindowHolds, NumbersHold
<1>2. WindowHolds /\ [WindowNext]_windowVars => WindowHolds'
    BY WindowStep
<1> QED BY <1>1, <1>2, PTL DEF WindowSpec

\* And it only moves on (WindowMovesOn).
THEOREM WindowIsMonotone ==
    ASSUME BlocksPerSlice \in Nat \ {0}, MaxLiveSlices \in Nat \ {0}
    PROVE  WindowSpec => WindowMovesOn
<1>1. WindowHolds /\ [WindowNext]_windowVars =>
          [/\ sealed' >= sealed /\ first' >= first /\ floor' >= floor
           /\ needed' >= needed
           /\ ended => ended' /\ UNCHANGED <<sealed, filled>>]_windowVars
    BY WindowStep
<1> QED BY <1>1, WindowIsSound, PTL DEF WindowSpec, WindowMovesOn
=============================================================================
