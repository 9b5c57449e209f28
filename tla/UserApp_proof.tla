--------------------------- MODULE UserApp_proof ---------------------------
(***************************************************************************)
(* The messages of user_main() for any word width, any strings and any     *)
(* periods: the digits of a word fit tmp[], a message of the widest        *)
(* numbers fits msg[], and what the kernel is passed is what the source    *)
(* spells out.                                                             *)
(***************************************************************************)
EXTENDS UserApp, SequenceTheorems, WellFoundedInduction, TLAPS

NumberParts == {"id", "user_n", "syscall_n", "core"}
Kinds       == {"write", "puts"}

\* What msg and tmp are made of.
Symbols == Texts \cup {".", "newline", "nul"} \cup 0 .. 9

\* The most characters a part can take.
Width(p) == IF p \in NumberParts THEN TmpSize ELSE IF p \in Texts THEN TextLen[p] ELSE 1

\* The most characters the first parts of a message can take: none, one, two...
Room ==
    LET u == TextLen["user_prefix"]
        c == TextLen["core_infix"]
        s == TextLen["syscall_prefix"]
    IN  [write |-> <<0, u, u + TmpSize, u + TmpSize + 1, u + 2 * TmpSize + 1,
                     u + c + 2 * TmpSize + 1, u + c + 3 * TmpSize + 1,
                     u + c + 3 * TmpSize + 2>>,
         puts  |-> <<0, s, s + TmpSize, s + TmpSize + 1, s + 2 * TmpSize + 1,
                     s + 2 * TmpSize + 2>>]

-----------------------------------------------------------------------------
(* The inductive invariant *)

TypeInv ==
    /\ id \in Numbers /\ user_n \in Numbers /\ syscall_n \in Numbers /\ core \in Numbers
    /\ val \in Numbers
    /\ pc \in {"start", "burst", "write?", "puts?", "compose", "number", "take"}
    /\ kind \in Kinds \cup {"none"} /\ part \in Nat
    /\ msg \in Seq(Symbols) /\ tmp \in Seq(0 .. 9)

\* A message is composed part by part, and a number is part of one.
PlaceInv ==
    /\ pc \in {"compose", "number", "take"} => kind \in Kinds /\ part <= Len(Parts[kind])
    /\ pc \in {"number", "take"} => part < Len(Parts[kind]) /\ Todo \in NumberParts

\* The digits taken off and the value that is left are no more than ten.
DigitInv ==
    /\ pc # "take" => tmp = <<>>
    /\ Len(tmp) <= TmpSize
    /\ val # 0 => val < Power[TmpSize - Len(tmp)]

\* The parts done, and the digits already put back, are within their room.
RoomInv ==
    /\ Len(msg) <= MsgMax
    /\ pc \in {"compose", "number"} => Len(msg) <= Room[kind][part + 1]
    /\ pc = "take" =>
         /\ Len(msg) + Len(tmp) <= Room[kind][part + 1] + TmpSize
         /\ val # 0 => Len(msg) <= Room[kind][part + 1]

IInv == TypeInv /\ PlaceInv /\ DigitInv /\ RoomInv

-----------------------------------------------------------------------------
(* Lemmas on the operators *)

LEMMA Sizes ==
    /\ TmpSize \in Nat \ {0} /\ MsgMax \in Nat
    /\ TextLen["user_prefix"] \in Nat /\ TextLen["core_infix"] \in Nat
    /\ TextLen["syscall_prefix"] \in Nat
  BY WordAssumption, PowerAssumption, BufferAssumption, TextAssumption DEF Texts

\* Each part of a message has the room the table gives it, and the last ends
\* inside the buffer.
LEMMA RoomOfWrite ==
    ASSUME NEW p \in 0 .. 6
    PROVE  /\ Room["write"][p + 1] \in Nat /\ Room["write"][p + 2] <= MsgMax
           /\ Room["write"][p + 2] = Room["write"][p + 1] + Width(Parts["write"][p + 1])
  <1>1. p = 0 \/ p = 1 \/ p = 2 \/ p = 3 \/ p = 4 \/ p = 5 \/ p = 6
    OBVIOUS
  <1> DEFINE Goal(q) ==
        /\ Room["write"][q + 1] \in Nat /\ Room["write"][q + 2] <= MsgMax
        /\ Room["write"][q + 2] = Room["write"][q + 1] + Width(Parts["write"][q + 1])
  <1> USE Sizes, BufferAssumption DEF Room, Parts, Width, NumberParts, Texts
  <1>2. Goal(0) /\ Goal(1)
    OBVIOUS
  <1>3. Goal(2) /\ Goal(3)
    OBVIOUS
  <1>4. Goal(4) /\ Goal(5)
    OBVIOUS
  <1>5. Goal(6)
    OBVIOUS
  <1> HIDE DEF Goal
  <1>6. Goal(p)
    BY <1>1, <1>2, <1>3, <1>4, <1>5
  <1>7. QED BY <1>6 DEF Goal

LEMMA RoomOfPuts ==
    ASSUME NEW p \in 0 .. 4
    PROVE  /\ Room["puts"][p + 1] \in Nat /\ Room["puts"][p + 2] <= MsgMax
           /\ Room["puts"][p + 2] = Room["puts"][p + 1] + Width(Parts["puts"][p + 1])
  <1>1. p = 0 \/ p = 1 \/ p = 2 \/ p = 3 \/ p = 4
    OBVIOUS
  <1> DEFINE Goal(q) ==
        /\ Room["puts"][q + 1] \in Nat /\ Room["puts"][q + 2] <= MsgMax
        /\ Room["puts"][q + 2] = Room["puts"][q + 1] + Width(Parts["puts"][q + 1])
  <1> USE Sizes, BufferAssumption DEF Room, Parts, Width, NumberParts, Texts
  <1>2. Goal(0) /\ Goal(1)
    OBVIOUS
  <1>3. Goal(2) /\ Goal(3) /\ Goal(4)
    OBVIOUS
  <1> HIDE DEF Goal
  <1>4. Goal(p)
    BY <1>1, <1>2, <1>3
  <1>5. QED BY <1>4 DEF Goal

LEMMA PartsHaveRoom ==
    ASSUME NEW k \in Kinds, NEW p \in Nat, p < Len(Parts[k])
    PROVE  /\ Room[k][p + 1] \in Nat /\ Room[k][p + 2] <= MsgMax
           /\ Room[k][p + 2] = Room[k][p + 1] + Width(Parts[k][p + 1])
  <1>1. Len(Parts["write"]) = 7 /\ Len(Parts["puts"]) = 5
    BY DEF Parts
  <1>2. CASE k = "write"
    <2>1. p \in 0 .. 6
      <3>1. p < 7
        BY <1>1, <1>2, Zenon
      <3>2. QED BY <3>1
    <2>2. QED BY <1>2, <2>1, RoomOfWrite
  <1>3. CASE k = "puts"
    <2>1. p \in 0 .. 4
      <3>1. p < 5
        BY <1>1, <1>3, Zenon
      <3>2. QED BY <3>1
    <2>2. QED BY <1>3, <2>1, RoomOfPuts
  <1>4. QED BY <1>2, <1>3 DEF Kinds

LEMMA FirstRoom == Room["write"][1] = 0 /\ Room["puts"][1] = 0
  BY DEF Room

LEMMA WidthIsNat == \A p \in Texts : TextLen[p] \in Nat
  BY TextAssumption

\* The parts that are no numbers.
LEMMA PartsAreSymbols ==
    ASSUME NEW k \in Kinds, NEW p \in Nat, p < Len(Parts[k])
    PROVE  Parts[k][p + 1] \in NumberParts \/ Parts[k][p + 1] \in Texts \cup {".", "newline", "nul"}
  <1>1. Len(Parts["write"]) = 7 /\ Len(Parts["puts"]) = 5
    BY DEF Parts
  <1>2. k = "write" =>
          p = 0 \/ p = 1 \/ p = 2 \/ p = 3 \/ p = 4 \/ p = 5 \/ p = 6
    <2>1. k = "write" => p < 7
      BY <1>1, Zenon
    <2>2. QED BY <2>1
  <1>3. k = "puts" => p = 0 \/ p = 1 \/ p = 2 \/ p = 3 \/ p = 4
    <2>1. k = "puts" => p < 5
      BY <1>1, Zenon
    <2>2. QED BY <2>1
  <1>4. QED BY <1>2, <1>3 DEF Parts, Kinds, NumberParts, Texts

\* One digit off a number below a power of ten leaves one below the next.
LEMMA OneDigitOff ==
    ASSUME NEW v \in Nat, v # 0, NEW k \in 0 .. TmpSize, v < Power[k]
    PROVE  k > 0 /\ v % 10 \in 0 .. 9 /\ v \div 10 \in Nat /\ v \div 10 <= v
           /\ v \div 10 < Power[k - 1]
  <1>1. k > 0
    BY PowerAssumption
  <1>2. k - 1 \in 0 .. TmpSize - 1 /\ (k - 1) + 1 = k
    BY <1>1, PowerAssumption
  <1>3. Power[k] = 10 * Power[k - 1] /\ Power[k - 1] \in Nat
    <2>1. Power[(k - 1) + 1] = 10 * Power[k - 1]
      BY <1>2, PowerAssumption
    <2>2. k - 1 \in 0 .. TmpSize
      BY <1>2, PowerAssumption
    <2>3. QED BY <1>2, <2>1, <2>2, PowerAssumption
  <1> DEFINE q == Power[k - 1]
  <1>4. ASSUME NEW r \in Nat, v < 10 * r
        PROVE  v \div 10 < r
    BY <1>4
  <1>5. v \div 10 < q
    BY <1>3, <1>4
  <1>6. v % 10 \in 0 .. 9 /\ v \div 10 \in Nat /\ v \div 10 <= v
    OBVIOUS
  <1>7. QED BY <1>1, <1>5, <1>6

\* Every word has at most TmpSize digits.
LEMMA WordsFit ==
    ASSUME NEW v \in Numbers
    PROVE  v < Power[TmpSize - Len(<<>>)]
  BY PowerAssumption, WordAssumption DEF Numbers
-----------------------------------------------------------------------------
(* One lemma per action *)

LEMMA InitIInv == Init => IInv
  <1> SUFFICES ASSUME Init
               PROVE  IInv
    OBVIOUS
  <1>1. 0 \in Numbers /\ 1 \in Numbers /\ id \in Numbers /\ core \in Numbers
    BY WordAssumption DEF Init, Numbers
  <1>2. <<>> \in Seq(Symbols) /\ <<>> \in Seq(0 .. 9) /\ Len(<<>>) = 0
    BY EmptySeq
  <1>3. TypeInv
    BY <1>1, <1>2 DEF Init, TypeInv
  <1>4. PlaceInv
    BY DEF Init, PlaceInv
  <1>5. DigitInv
    BY <1>1, <1>2, WordsFit, Sizes DEF Init, DigitInv
  <1>6. RoomInv
    BY <1>2, Sizes DEF Init, RoomInv
  <1>7. QED BY <1>3, <1>4, <1>5, <1>6 DEF IInv

\* Sleeping and the choice of a message touch no buffer but to empty it.
LEMMA LoopIInv ==
    ASSUME IInv, Stagger \/ Yield \/ Sleep \/ MaybeWrite \/ MaybePuts \/ Send
    PROVE  IInv'
  <1>1. /\ pc \in {"start", "burst", "write?", "puts?", "compose"}
        /\ UNCHANGED <<id, user_n, syscall_n, core, val, tmp>>
        /\ \/ /\ pc' \in {"burst", "write?", "puts?"} /\ msg' = msg
              /\ kind' \in {kind, "none"} /\ part' \in {part, 0}
           \/ pc' = "compose" /\ msg' = <<>> /\ kind' \in Kinds /\ part' = 0
    BY DEF Stagger, Yield, Sleep, MaybeWrite, MaybePuts, Send, Begin, Skip, Kinds
  <1>2. TypeInv'
    <2>1. msg' \in Seq(Symbols)
      BY <1>1, EmptySeq DEF IInv, TypeInv
    <2>2. kind' \in Kinds \cup {"none"} /\ part' \in Nat
      BY <1>1 DEF IInv, TypeInv
    <2>3. QED BY <1>1, <2>1, <2>2 DEF IInv, TypeInv
  <1>3. PlaceInv'
    <2>1. Len(Parts["write"]) = 7 /\ Len(Parts["puts"]) = 5
      BY DEF Parts
    <2>2. QED BY <1>1, <2>1 DEF PlaceInv, Kinds
  <1>4. DigitInv'
    BY <1>1 DEF IInv, DigitInv
  <1>5. RoomInv'
    <2>1. Len(msg') <= MsgMax
      BY <1>1, Sizes DEF IInv, RoomInv
    <2>2. pc' = "compose" => Len(msg') = 0 /\ Room[kind'][part' + 1] = 0
      BY <1>1, FirstRoom DEF Kinds
    <2>3. QED BY <1>1, <2>1, <2>2 DEF RoomInv
  <1>6. QED BY <1>2, <1>3, <1>4, <1>5 DEF IInv

LEMMA AppendTextIInv ==
    ASSUME IInv, AppendText
    PROVE  IInv'
  <1>1. /\ pc = "compose" /\ kind \in Kinds /\ part \in Nat /\ part < Len(Parts[kind])
        /\ msg \in Seq(Symbols) /\ Len(msg) <= Room[kind][part + 1]
        /\ Todo = Parts[kind][part + 1]
    BY DEF IInv, TypeInv, PlaceInv, RoomInv, AppendText, More, Todo
  <1>2. Todo \notin NumberParts /\ Todo \in Texts \cup {".", "newline", "nul"}
    BY <1>1, PartsAreSymbols DEF AppendText, NumberParts
  <1> DEFINE piece == IF Todo \in Texts THEN [j \in 1 .. TextLen[Todo] |-> Todo] ELSE <<Todo>>
  <1>3. piece \in Seq(Symbols) /\ Len(piece) = Width(Todo)
    <2>1. Todo \in Symbols
      BY <1>2 DEF Symbols
    <2>2. CASE Todo \in Texts
      <3>1. TextLen[Todo] \in Nat
        BY <2>2, WidthIsNat
      <3>2. QED BY <1>2, <2>1, <2>2, <3>1 DEF Width
    <2>3. CASE Todo \notin Texts
      BY <1>2, <2>1, <2>3 DEF Width
    <2>4. QED BY <2>2, <2>3
  <1>4. msg' = msg \o piece /\ part' = part + 1 /\ pc' = pc /\ kind' = kind
    BY DEF AppendText
  <1> HIDE DEF piece
  <1>5. msg' \in Seq(Symbols) /\ Len(msg') = Len(msg) + Width(Todo)
    <2>1. msg \o piece \in Seq(Symbols) /\ Len(msg \o piece) = Len(msg) + Len(piece)
      <3>1. msg \in Seq(Symbols) /\ piece \in Seq(Symbols)
        BY <1>1, <1>3
      <3>2. QED BY <3>1, ConcatProperties, Zenon
    <2>2. QED BY <1>3, <1>4, <2>1, Zenon
  <1>6. Len(msg) \in Nat /\ Width(Todo) \in Nat
    BY <1>1, <1>3, LenProperties
  <1>7. TypeInv'
    BY <1>4, <1>5 DEF IInv, TypeInv, AppendText
  <1>8. PlaceInv'
    <2>1. Len(Parts["write"]) = 7 /\ Len(Parts["puts"]) = 5
      BY DEF Parts
    <2>2. part + 1 <= Len(Parts[kind])
      BY <1>1, <2>1 DEF Kinds
    <2>3. QED BY <1>1, <1>4, <2>2 DEF PlaceInv
  <1>9. DigitInv'
    BY <1>4 DEF IInv, DigitInv, AppendText
  <1>10. RoomInv'
    <2>1. /\ Room[kind][part + 1] \in Nat /\ Room[kind][part + 2] <= MsgMax
          /\ Room[kind][part + 2] = Room[kind][part + 1] + Width(Todo)
      BY <1>1, PartsHaveRoom
    <2>2. Len(msg') <= Room[kind'][part' + 1] /\ Len(msg') <= MsgMax
      <3>1. kind' = kind /\ part' + 1 = part + 2
        BY <1>1, <1>4
      <3>2. QED BY <1>1, <1>5, <1>6, <2>1, <3>1, Sizes
    <2>3. QED BY <1>1, <1>4, <2>2 DEF RoomInv
  <1>11. QED BY <1>7, <1>8, <1>9, <1>10 DEF IInv

LEMMA CallNumberIInv ==
    ASSUME IInv, CallNumber
    PROVE  IInv'
  <1>1. /\ pc = "compose" /\ pc' = "number" /\ part < Len(Parts[kind]) /\ Todo \in NumberParts
        /\ UNCHANGED <<id, kind, part, msg, tmp>>
    BY DEF CallNumber, More, NumberParts
  <1>2. Todo' = Todo
    BY <1>1 DEF Todo
  <1>3. core' \in Numbers
    BY WordAssumption DEF CallNumber, IInv, TypeInv
  <1>4. val' \in Numbers /\ user_n' \in Numbers /\ syscall_n' \in Numbers
    <2>1. (user_n + 1) % Word \in Numbers /\ (syscall_n + 1) % Word \in Numbers
      BY WordAssumption DEF IInv, TypeInv, Numbers
    <2>2. user_n' \in Numbers /\ syscall_n' \in Numbers
      BY <2>1 DEF CallNumber, IInv, TypeInv
    <2>3. val' \in {id, user_n, syscall_n, core'}
      BY DEF CallNumber
    <2>4. QED BY <1>3, <2>2, <2>3 DEF IInv, TypeInv
  <1>5. TypeInv'
    BY <1>1, <1>3, <1>4 DEF IInv, TypeInv
  <1>6. PlaceInv'
    BY <1>1, <1>2 DEF IInv, PlaceInv
  <1>7. DigitInv'
    <2>1. tmp' = <<>> /\ tmp' = tmp
      BY <1>1 DEF IInv, DigitInv
    <2>2. QED BY <1>1, <1>4, <2>1, WordsFit DEF IInv, DigitInv
  <1>8. RoomInv'
    BY <1>1 DEF IInv, RoomInv
  <1>9. QED BY <1>5, <1>6, <1>7, <1>8 DEF IInv

\* A number is done: the one digit of 0, or the last one put back.
LEMMA NumberEnds ==
    ASSUME IInv, pc \in {"number", "take"}, pc' = "compose", part' = part + 1,
           UNCHANGED <<id, user_n, syscall_n, core, kind, val>>, tmp' = <<>>, tmp = <<>>,
           msg' \in Seq(Symbols), Len(msg') <= Room[kind][part + 1] + TmpSize
    PROVE  IInv'
  <1>1. kind \in Kinds /\ part \in Nat /\ part < Len(Parts[kind]) /\ Todo \in NumberParts
    BY DEF IInv, TypeInv, PlaceInv
  <1>2. TypeInv'
    BY EmptySeq, <1>1 DEF IInv, TypeInv
  <1>3. PlaceInv'
    <2>1. Len(Parts["write"]) = 7 /\ Len(Parts["puts"]) = 5
      BY DEF Parts
    <2>2. part + 1 <= Len(Parts[kind])
      BY <1>1, <2>1 DEF Kinds
    <2>3. QED BY <1>1, <2>2 DEF PlaceInv
  <1>4. DigitInv'
    BY DEF IInv, DigitInv
  <1>5. RoomInv'
    <2>1. /\ Room[kind][part + 1] \in Nat /\ Room[kind][part + 2] <= MsgMax
          /\ Room[kind][part + 2] = Room[kind][part + 1] + TmpSize
      BY <1>1, PartsHaveRoom DEF Todo, Width
    <2>2. part' + 1 = part + 2 /\ Len(msg') \in Nat
      BY <1>1, LenProperties
    <2>3. Len(msg') <= Room[kind'][part' + 1] /\ Len(msg') <= MsgMax
      BY <2>1, <2>2, Sizes
    <2>4. QED BY <2>3 DEF RoomInv
  <1>6. QED BY <1>2, <1>3, <1>4, <1>5 DEF IInv

LEMMA ZeroIInv ==
    ASSUME IInv, Zero
    PROVE  IInv'
  <1>1. /\ pc = "number" /\ msg' = Append(msg, 0) /\ msg \in Seq(Symbols) /\ tmp = <<>>
        /\ Len(msg) <= Room[kind][part + 1]
    BY DEF IInv, TypeInv, DigitInv, RoomInv, Zero
  <1>2. kind \in Kinds /\ part \in Nat /\ part < Len(Parts[kind])
    BY <1>1 DEF IInv, TypeInv, PlaceInv
  <1>3. msg' \in Seq(Symbols) /\ Len(msg') = Len(msg) + 1 /\ Len(msg) \in Nat
    BY <1>1, AppendProperties, LenProperties DEF Symbols
  <1>4. Room[kind][part + 1] \in Nat
    BY <1>2, PartsHaveRoom
  <1>5. Len(msg') <= Room[kind][part + 1] + TmpSize
    BY <1>1, <1>3, <1>4, Sizes
  <1>6. QED BY <1>1, <1>3, <1>5, NumberEnds DEF Zero

LEMMA NumberDoneIInv ==
    ASSUME IInv, NumberDone
    PROVE  IInv'
  <1>1. /\ pc = "take" /\ tmp = <<>> /\ msg' = msg /\ msg \in Seq(Symbols)
        /\ Len(msg) + Len(tmp) <= Room[kind][part + 1] + TmpSize
    BY DEF IInv, TypeInv, RoomInv, NumberDone
  <1>2. Len(msg) \in Nat /\ Len(tmp) = 0
    BY <1>1, LenProperties
  <1>3. Len(msg') <= Room[kind][part + 1] + TmpSize
    BY <1>1, <1>2
  <1>4. QED BY <1>1, <1>3, NumberEnds DEF NumberDone

LEMMA TakeDigitIInv ==
    ASSUME IInv, TakeDigit
    PROVE  IInv'
  <1>1. /\ pc \in {"number", "take"} /\ val # 0 /\ pc' = "take"
        /\ tmp' = Append(tmp, val % 10) /\ val' = val \div 10
        /\ UNCHANGED <<id, user_n, syscall_n, kind, part, msg, core>>
    BY DEF TakeDigit
  <1>2. /\ val \in Nat /\ tmp \in Seq(0 .. 9) /\ Len(tmp) \in Nat /\ Len(tmp) <= TmpSize
        /\ val < Power[TmpSize - Len(tmp)] /\ Len(msg) \in Nat
    BY <1>1, LenProperties DEF IInv, TypeInv, DigitInv, Numbers
  <1> DEFINE left == TmpSize - Len(tmp)
  <1>3. left \in 0 .. TmpSize
    BY <1>2, Sizes
  <1>4. /\ left > 0 /\ val % 10 \in 0 .. 9 /\ val \div 10 \in Nat /\ val \div 10 <= val
        /\ val \div 10 < Power[left - 1]
    <2> HIDE DEF left
    <2>1. val < Power[left]
      BY <1>2 DEF left
    <2>2. QED BY <1>1, <1>2, <1>3, <2>1, OneDigitOff
  <1>5. tmp' \in Seq(0 .. 9) /\ Len(tmp') = Len(tmp) + 1
    BY <1>1, <1>2, <1>4, AppendProperties
  <1>6. TypeInv'
    <2>1. val' \in Numbers
      BY <1>1, <1>2, <1>4, WordAssumption DEF IInv, TypeInv, Numbers
    <2>2. QED BY <1>1, <1>5, <2>1 DEF IInv, TypeInv
  <1>7. PlaceInv'
    BY <1>1 DEF IInv, PlaceInv, Todo
  <1>8. DigitInv'
    <2>1. Len(tmp') <= TmpSize /\ TmpSize - Len(tmp') = left - 1
      BY <1>2, <1>3, <1>4, <1>5, Sizes
    <2>2. QED BY <1>1, <1>4, <2>1 DEF DigitInv
  <1>9. RoomInv'
    <2>1. kind \in Kinds /\ part \in Nat /\ part < Len(Parts[kind])
      BY <1>1 DEF IInv, TypeInv, PlaceInv
    <2>2. Room[kind][part + 1] \in Nat
      BY <2>1, PartsHaveRoom
    <2>3. Len(msg) <= Room[kind][part + 1] /\ Len(msg) <= MsgMax
      BY <1>1 DEF IInv, RoomInv
    <2>4. Len(tmp') <= TmpSize
      BY <1>2, <1>3, <1>4, <1>5, Sizes
    <2>5. Len(msg) + Len(tmp') <= Room[kind][part + 1] + TmpSize
      BY <1>2, <1>5, <2>2, <2>3, <2>4, Sizes
    <2>6. QED BY <1>1, <2>3, <2>5 DEF RoomInv
  <1>10. QED BY <1>6, <1>7, <1>8, <1>9 DEF IInv

LEMMA PutDigitIInv ==
    ASSUME IInv, PutDigit
    PROVE  IInv'
  <1>1. /\ pc = "take" /\ val = 0 /\ tmp # <<>> /\ pc' = pc /\ val' = val
        /\ msg' = Append(msg, tmp[Len(tmp)]) /\ tmp' = SubSeq(tmp, 1, Len(tmp) - 1)
        /\ UNCHANGED <<id, user_n, syscall_n, kind, part, core>>
    BY DEF PutDigit
  <1>2. /\ msg \in Seq(Symbols) /\ tmp \in Seq(0 .. 9) /\ Len(msg) \in Nat
        /\ Len(tmp) \in Nat \ {0} /\ Len(tmp) <= TmpSize
    BY <1>1, LenProperties, EmptySeq DEF IInv, TypeInv, DigitInv
  <1>3. tmp[Len(tmp)] \in Symbols
    <2>1. tmp[Len(tmp)] \in 0 .. 9
      BY <1>2, ElementOfSeq
    <2>2. QED BY <2>1 DEF Symbols
  <1>4. msg' \in Seq(Symbols) /\ Len(msg') = Len(msg) + 1
    BY <1>1, <1>2, <1>3, AppendProperties
  <1>5. tmp' \in Seq(0 .. 9) /\ Len(tmp') = Len(tmp) - 1
    <2>1. \A j \in 1 .. Len(tmp) - 1 : tmp[j] \in 0 .. 9
      BY <1>2, ElementOfSeq
    <2> DEFINE m == Len(tmp) - 1
               S == 0 .. 9
    <2>2. tmp' = SubSeq(tmp, 1, m) /\ m \in Nat /\ \A j \in 1 .. m : tmp[j] \in S
      BY <1>1, <1>2, <2>1
    <2> HIDE DEF m, S
    <2>3. /\ SubSeq(tmp, 1, m) \in Seq(S)
          /\ Len(SubSeq(tmp, 1, m)) = IF 1 <= m THEN m - 1 + 1 ELSE 0
      BY <2>2, SubSeqProperties
    <2>4. tmp' \in Seq(S) /\ Len(tmp') = m
      <3>1. (IF 1 <= m THEN m - 1 + 1 ELSE 0) = m
        BY <2>2
      <3>2. QED BY <2>2, <2>3, <3>1, Zenon
    <2>5. QED BY <2>4 DEF m, S
  <1>6. TypeInv'
    BY <1>1, <1>4, <1>5 DEF IInv, TypeInv
  <1>7. PlaceInv'
    BY <1>1 DEF IInv, PlaceInv, Todo
  <1>8. DigitInv'
    <2>1. Len(tmp') <= TmpSize
      BY <1>2, <1>5, Sizes
    <2>2. QED BY <1>1, <2>1 DEF DigitInv
  <1>9. RoomInv'
    <2>1. kind \in Kinds /\ part \in Nat /\ part < Len(Parts[kind])
      BY <1>1 DEF IInv, TypeInv, PlaceInv
    <2>2. /\ Room[kind][part + 1] \in Nat /\ Room[kind][part + 2] <= MsgMax
          /\ Room[kind][part + 2] = Room[kind][part + 1] + TmpSize
      BY <1>1, <2>1, PartsHaveRoom DEF IInv, PlaceInv, Todo, Width
    <2>3. Len(msg) + Len(tmp) <= Room[kind][part + 1] + TmpSize
      BY <1>1 DEF IInv, RoomInv
    <2>4. /\ Len(msg') + Len(tmp') <= Room[kind][part + 1] + TmpSize
          /\ Len(msg') <= MsgMax
      BY <1>2, <1>4, <1>5, <2>2, <2>3, Sizes
    <2>5. QED BY <1>1, <2>4 DEF RoomInv
  <1>10. QED BY <1>6, <1>7, <1>8, <1>9 DEF IInv

-----------------------------------------------------------------------------
\* The inductive invariant of user_main(): which part of which message it
\* composes, how many digits are still to come, and the room there is for them.
THEOREM UserInvariant == Spec => []IInv
<1>1. IInv /\ UNCHANGED vars => IInv'
  BY DEF vars, IInv, TypeInv, PlaceInv, DigitInv, RoomInv, Todo
<1>2. IInv /\ Next => IInv'
  BY LoopIInv, AppendTextIInv, CallNumberIInv, ZeroIInv, TakeDigitIInv, PutDigitIInv,
     NumberDoneIInv DEF Next
<1>3. QED BY InitIInv, <1>1, <1>2, PTL DEF Spec

\* Whatever the counters have come to, u_append_u32() takes off no more digits than
\* tmp[] has room for, and nothing is stored past the end of msg[].
THEOREM UserBuffersHold == Spec => []BuffersHold
<1>1. IInv => BuffersHold
  BY DEF IInv, DigitInv, RoomInv, BuffersHold
<1>2. QED BY <1>1, UserInvariant, PTL

-----------------------------------------------------------------------------
(* The text of a message *)

Piece(q, d, x, c) ==
    CASE q \in Texts -> [j \in 1 .. TextLen[q] |-> q]
      [] q = "id" -> Decimal(d)
      [] q \in {"user_n", "syscall_n"} -> Decimal(x)
      [] q = "core" -> Decimal(c)
      [] OTHER -> <<q>>

\* The first parts of a message of slot d, under number x, from core c: none,
\* one, two...
WriteText(p, d, x, c) ==
    LET P(q) == Piece(q, d, x, c)
        u == P("user_prefix") \o P("id") \o P(".") \o P("user_n")
    IN  CASE p = 0 -> <<>>
          [] p = 1 -> P("user_prefix")
          [] p = 2 -> P("user_prefix") \o P("id")
          [] p = 3 -> P("user_prefix") \o P("id") \o P(".")
          [] p = 4 -> u
          [] p = 5 -> u \o P("core_infix")
          [] p = 6 -> u \o P("core_infix") \o P("core")
          [] p = 7 -> u \o P("core_infix") \o P("core") \o P("newline")

PutsText(p, d, x, c) ==
    LET P(q) == Piece(q, d, x, c)
        s == P("syscall_prefix") \o P("id") \o P(".")
    IN  CASE p = 0 -> <<>>
          [] p = 1 -> P("syscall_prefix")
          [] p = 2 -> P("syscall_prefix") \o P("id")
          [] p = 3 -> s
          [] p = 4 -> s \o P("syscall_n")
          [] p = 5 -> s \o P("syscall_n") \o P("nul")

Composed(k, p, d, x, c) == IF k = "write" THEN WriteText(p, d, x, c) ELSE PutsText(p, d, x, c)

\* The number of the message in the buffer: the counter has moved on by one once it
\* has been passed.
Count(k) == Previous(IF k = "write" THEN user_n ELSE syscall_n)
SoFar    == Composed(kind, part, id, Count(kind), core)

\* The argument of the u_append_u32() in progress.
Number == CASE Todo = "id" -> id
            [] Todo \in {"user_n", "syscall_n"} -> Count(kind)
            [] Todo = "core" -> core

\* The buffer holds the text of the parts done; in u_append_u32(), tmp[] holds the
\* lowest digits of the number, and either val is the rest of it, or the other
\* digits have followed the text.
TextInv ==
    /\ pc \in {"compose", "number"} => msg = SoFar
    /\ pc = "number" => val = Number
    /\ pc = "take" =>
         /\ Len(tmp) <= Digits(Number)
         /\ \A j \in 1 .. Len(tmp) : tmp[j] = (Number \div Power[j - 1]) % 10
         /\ IF val # 0
            THEN msg = SoFar /\ val = Number \div Power[Len(tmp)]
            ELSE msg = SoFar \o SubSeq(Decimal(Number), 1, Digits(Number) - Len(tmp))

-----------------------------------------------------------------------------
(* Lemmas on powers of ten and decimals *)

LEMMA LeastNumber ==
    ASSUME NEW S \in SUBSET Nat, S # {}
    PROVE  \E k \in S : \A j \in S : k <= j
  <1>1. PICK k \in S : \A j \in S : ~(<<j, k>> \in OpToRel(<, Nat))
    BY NatLessThanWellFounded, WFMin
  <1>2. \A j \in S : ~(j < k)
    BY <1>1 DEF OpToRel
  <1>3. QED BY <1>2

LEMMA NextPower ==
    ASSUME NEW j \in 1 .. TmpSize
    PROVE  Power[j] = 10 * Power[j - 1] /\ Power[j - 1] \in Nat /\ Power[j] \in Nat
  <1>1. j - 1 \in 0 .. TmpSize - 1 /\ (j - 1) + 1 = j /\ j - 1 \in 0 .. TmpSize /\ j \in 0 .. TmpSize
    BY Sizes
  <1>2. Power[(j - 1) + 1] = 10 * Power[j - 1]
    BY <1>1, PowerAssumption
  <1>3. QED BY <1>1, <1>2, PowerAssumption

\* Powers grow with the exponent.
LEMMA PowersGrow ==
    ASSUME NEW i0 \in 0 .. TmpSize, NEW j0 \in i0 .. TmpSize
    PROVE  Power[i0] <= Power[j0]
  <1> DEFINE S == {j \in i0 .. TmpSize : ~(Power[i0] <= Power[j])}
  <1>1. CASE S = {}
    BY <1>1
  <1>2. CASE S # {}
    <2>1. S \in SUBSET Nat
      BY Sizes
    <2> HIDE DEF S
    <2>2. PICK j \in S : \A h \in S : j <= h
      BY <1>2, <2>1, LeastNumber
    <2>3. j \in i0 .. TmpSize /\ ~(Power[i0] <= Power[j])
      BY <2>2 DEF S
    <2>4. Power[i0] \in Nat /\ Power[j] \in Nat
      BY <2>3, PowerAssumption, Sizes
    <2>5. j # i0
      BY <2>3, <2>4
    <2>6. j \in 1 .. TmpSize /\ j - 1 \in i0 .. TmpSize /\ j - 1 < j /\ j \in Nat
      BY <2>3, <2>5, Sizes
    <2>7. j - 1 \notin S
      BY <2>1, <2>2, <2>6
    <2>8. Power[i0] <= Power[j - 1]
      BY <2>6, <2>7 DEF S
    <2>9. Power[j] = 10 * Power[j - 1] /\ Power[j - 1] \in Nat
      BY <2>6, NextPower
    <2>10. QED BY <2>3, <2>4, <2>8, <2>9
  <1>3. QED BY <1>1, <1>2

LEMMA PowersPositive ==
    ASSUME NEW j \in 0 .. TmpSize
    PROVE  Power[j] \in Nat \ {0}
  <1>1. Power[0] <= Power[j]
    <2>1. 0 \in 0 .. TmpSize /\ j \in 0 .. TmpSize
      BY Sizes
    <2>2. QED BY <2>1, PowersGrow
  <1>2. QED BY <1>1, PowerAssumption

LEMMA DigitsOf ==
    ASSUME NEW x \in Numbers
    PROVE  /\ Digits(x) \in 1 .. TmpSize /\ x < Power[Digits(x)]
           /\ Digits(x) > 1 => Power[Digits(x) - 1] <= x
  <1> DEFINE S == {d \in 1 .. TmpSize : x < Power[d]}
  <1>1. TmpSize \in S /\ S \in SUBSET Nat
    BY WordsFit, Sizes, PowerAssumption, WordAssumption DEF Numbers
  <1>2. PICK d \in S : \A h \in S : d <= h
    <2> HIDE DEF S
    <2>1. QED BY <1>1, LeastNumber
  <1>3. d > 1 => Power[d - 1] <= x
    <2> SUFFICES ASSUME d > 1
                 PROVE  Power[d - 1] <= x
      OBVIOUS
    <2>1. d \in Nat /\ d - 1 \in 1 .. TmpSize /\ d - 1 \in 0 .. TmpSize /\ ~(d <= d - 1)
      BY Sizes
    <2>2. ~(x < Power[d - 1])
      BY <1>2, <2>1
    <2>3. Power[d - 1] \in Nat /\ x \in Nat
      BY <2>1, PowerAssumption, WordAssumption DEF Numbers
    <2>4. QED BY <2>2, <2>3
  <1>4. \E e \in 1 .. TmpSize : x < Power[e] /\ (e > 1 => Power[e - 1] <= x)
    BY <1>3
  <1> HIDE DEF S
  <1>5. QED BY <1>4, Zenon DEF Digits

LEMMA DigitsAre ==
    ASSUME NEW x \in Numbers, NEW d \in 1 .. TmpSize, x < Power[d],
           d > 1 => Power[d - 1] <= x
    PROVE  Digits(x) = d
  <1> DEFINE e == Digits(x)
  <1>1. e \in 1 .. TmpSize /\ x < Power[e] /\ (e > 1 => Power[e - 1] <= x)
    BY DigitsOf
  <1> HIDE DEF e
  <1>2. x \in Nat /\ Power[d] \in Nat /\ Power[e] \in Nat /\ Power[d - 1] \in Nat /\ Power[e - 1] \in Nat
    BY <1>1, NextPower, WordAssumption DEF Numbers
  <1>3. CASE d < e
    <2>1. e > 1 /\ d \in 0 .. TmpSize /\ e - 1 \in d .. TmpSize
      BY <1>1, <1>3, Sizes
    <2>2. Power[d] <= Power[e - 1]
      BY <2>1, PowersGrow
    <2>3. QED BY <1>1, <1>2, <2>1, <2>2
  <1>4. CASE e < d
    <2>1. d > 1 /\ e \in 0 .. TmpSize /\ d - 1 \in e .. TmpSize
      BY <1>1, <1>4, Sizes
    <2>2. Power[e] <= Power[d - 1]
      BY <2>1, PowersGrow
    <2>3. QED BY <1>1, <1>2, <2>1, <2>2
  <1>5. d < e \/ e < d \/ e = d
    BY <1>1, Sizes
  <1>6. QED BY <1>3, <1>4, <1>5 DEF e

LEMMA DecimalTyped ==
    ASSUME NEW x \in Numbers
    PROVE  /\ Decimal(x) \in Seq(0 .. 9) /\ Len(Decimal(x)) = Digits(x)
           /\ \A j \in 1 .. Digits(x) : Decimal(x)[j] = (x \div Power[Digits(x) - j]) % 10
  <1> DEFINE e == Digits(x)
  <1>1. e \in 1 .. TmpSize /\ x \in Nat
    BY DigitsOf, WordAssumption DEF Numbers
  <1>2. ASSUME NEW j \in 1 .. e
        PROVE  (x \div Power[e - j]) % 10 \in 0 .. 9
    <2> HIDE DEF e
    <2>1. e - j \in 0 .. TmpSize
      BY <1>1, <1>2, Sizes
    <2>2. Power[e - j] \in Nat \ {0}
      BY <2>1, PowersPositive
    <2>3. x \div Power[e - j] \in Nat
      BY <1>1, <2>2
    <2>4. QED BY <2>3
  <1>3. Decimal(x) = [j \in 1 .. e |-> (x \div Power[e - j]) % 10]
    BY DEF Decimal
  <1> HIDE DEF e
  <1>4. Decimal(x) \in Seq(0 .. 9) /\ Len(Decimal(x)) = e
    BY <1>1, <1>2, <1>3
  <1>5. \A j \in 1 .. e : Decimal(x)[j] = (x \div Power[e - j]) % 10
    BY <1>3
  <1>6. QED BY <1>4, <1>5 DEF e

\* The one number with no digit to take off is printed as one all the same.
LEMMA DecimalOfZero == Decimal(0) = <<0>>
  <1>1. 0 \in Numbers /\ 1 \in 1 .. TmpSize /\ 0 < Power[1]
    <2>1. 0 \in Numbers /\ 1 \in 1 .. TmpSize /\ 1 \in 0 .. TmpSize
      BY WordAssumption, Sizes DEF Numbers
    <2>2. QED BY <2>1, PowersPositive
  <1>2. Digits(0) = 1
    BY <1>1, DigitsAre
  <1>3. (0 \div Power[1 - 1]) % 10 = 0
    BY PowerAssumption
  <1>4. /\ Decimal(0) \in Seq(0 .. 9) /\ Len(Decimal(0)) = 1
        /\ \A j \in 1 .. 1 : Decimal(0)[j] = (0 \div Power[1 - j]) % 10
    <2>1. /\ Decimal(0) \in Seq(0 .. 9) /\ Len(Decimal(0)) = Digits(0)
          /\ \A j \in 1 .. Digits(0) : Decimal(0)[j] = (0 \div Power[Digits(0) - j]) % 10
      BY <1>1, DecimalTyped
    <2>2. QED BY <1>2, <2>1
  <1>5. Decimal(0)[1] = 0
    BY <1>3, <1>4
  <1>6. QED BY <1>4, <1>5

\* Taking off one digit more.
LEMMA DigitTaken ==
    ASSUME NEW x \in Numbers, NEW k \in 0 .. TmpSize, x \div Power[k] # 0
    PROVE  /\ k < Digits(x) /\ k + 1 \in 1 .. TmpSize
           /\ (x \div Power[k]) \div 10 = x \div Power[k + 1]
           /\ x \div Power[k + 1] = 0 => Digits(x) = k + 1
           /\ x \div Power[k + 1] # 0 => k + 1 < Digits(x)
  <1>1. x \in Nat /\ Power[k] \in Nat \ {0}
    BY PowersPositive, WordAssumption DEF Numbers
  <1> DEFINE e == Digits(x)
  <1>2. e \in 1 .. TmpSize /\ x < Power[e] /\ Power[e] \in Nat
    BY DigitsOf, NextPower
  <1>3. \A j \in 0 .. TmpSize : x \div Power[j] # 0 => j < e
    <2> SUFFICES ASSUME NEW j \in 0 .. TmpSize, x \div Power[j] # 0, ~(j < e)
                 PROVE  FALSE
      OBVIOUS
    <2> HIDE DEF e
    <2>1. e \in 0 .. TmpSize /\ j \in e .. TmpSize
      BY <1>2
    <2>2. Power[e] <= Power[j] /\ Power[j] \in Nat \ {0}
      BY <2>1, PowersGrow, PowersPositive
    <2>3. x < Power[j]
      BY <1>1, <1>2, <2>2
    <2>4. QED BY <1>1, <2>2, <2>3
  <1>4. k < e
    BY <1>3
  <1> HIDE DEF e
  <1>5. k + 1 \in 1 .. TmpSize /\ k + 1 \in 0 .. TmpSize /\ (k + 1) - 1 = k
    BY <1>2, <1>4, Sizes
  <1>6. Power[k + 1] = 10 * Power[k]
    <2>1. Power[k + 1] = 10 * Power[(k + 1) - 1]
      BY <1>5, NextPower
    <2>2. QED BY <1>5, <2>1
  <1>7. (x \div Power[k]) \div 10 = x \div Power[k + 1]
    <2>1. \A p \in Nat \ {0} : (x \div p) \div 10 = x \div (10 * p)
      BY <1>1
    <2>2. QED BY <1>1, <1>6, <2>1
  <1>8. ASSUME x \div Power[k + 1] = 0
        PROVE  e = k + 1
    <2>1. Power[k + 1] \in Nat \ {0}
      BY <1>5, PowersPositive
    <2>2. x < Power[k + 1]
      BY <1>1, <1>8, <2>1
    <2>3. Power[k] <= x
      BY <1>1
    <2>4. QED BY <1>5, <2>2, <2>3, DigitsAre DEF e
  <1>9. x \div Power[k + 1] # 0 => k + 1 < e
    BY <1>3, <1>5
  <1>10. QED BY <1>4, <1>5, <1>7, <1>8, <1>9 DEF e

-----------------------------------------------------------------------------
(* Lemmas on the text of a message *)

LEMMA Places ==
    ASSUME NEW k \in Kinds, NEW p \in Nat, p < Len(Parts[k])
    PROVE  \/ /\ k = "write"
              /\ p = 0 \/ p = 1 \/ p = 2 \/ p = 3 \/ p = 4 \/ p = 5 \/ p = 6
           \/ k = "puts" /\ (p = 0 \/ p = 1 \/ p = 2 \/ p = 3 \/ p = 4)
  <1>1. Len(Parts["write"]) = 7 /\ Len(Parts["puts"]) = 5
    BY DEF Parts
  <1>2. k = "write" => p < 7
    BY <1>1, Zenon
  <1>3. k = "puts" => p < 5
    BY <1>1, Zenon
  <1>4. QED BY <1>2, <1>3 DEF Kinds

LEMMA PieceTyped ==
    ASSUME NEW d \in Numbers, NEW x \in Numbers, NEW c \in Numbers,
           NEW q \in NumberParts \cup Texts \cup {".", "newline", "nul"}
    PROVE  Piece(q, d, x, c) \in Seq(Symbols)
  <1>1. \A v \in Numbers : Decimal(v) \in Seq(Symbols)
    <2> SUFFICES ASSUME NEW v \in Numbers
                 PROVE  Decimal(v) \in Seq(Symbols)
      OBVIOUS
    <2>1. Decimal(v) \in Seq(0 .. 9) /\ 0 .. 9 \subseteq Symbols
      BY DecimalTyped DEF Symbols
    <2>2. QED BY <2>1, SeqMonotonic
  <1>2. CASE q \in Texts
    <2>1. TextLen[q] \in Nat /\ q \in Symbols
      BY <1>2, WidthIsNat DEF Symbols
    <2>2. [j \in 1 .. TextLen[q] |-> q] \in Seq(Symbols)
      BY <2>1
    <2>3. QED BY <1>2, <2>2 DEF Piece, Texts
  <1>3. CASE q \in NumberParts
    BY <1>1, <1>3 DEF Piece, NumberParts, Texts
  <1>4. CASE q \in {".", "newline", "nul"}
    <2>1. q \in Symbols
      BY <1>4 DEF Symbols
    <2>2. Piece(q, d, x, c) = <<q>>
      BY <1>4 DEF Piece, Texts
    <2>3. QED BY <2>1, <2>2
  <1>5. QED BY <1>2, <1>3, <1>4

\* The text grows by the next part.
LEMMA OnePartMore ==
    ASSUME NEW k \in Kinds, NEW p \in Nat, p < Len(Parts[k]),
           NEW d \in Numbers, NEW x \in Numbers, NEW c \in Numbers
    PROVE  /\ Composed(k, p, d, x, c) \in Seq(Symbols)
           /\ Piece(Parts[k][p + 1], d, x, c) \in Seq(Symbols)
           /\ Composed(k, p + 1, d, x, c) = Composed(k, p, d, x, c) \o Piece(Parts[k][p + 1], d, x, c)
  <1> DEFINE C(m, q) == Composed(m, q, d, x, c)
             P(q)    == Piece(q, d, x, c)
  <1>1. \A q \in NumberParts \cup Texts \cup {".", "newline", "nul"} : P(q) \in Seq(Symbols)
    BY PieceTyped
  <1>2. Parts[k][p + 1] \in NumberParts \cup Texts \cup {".", "newline", "nul"}
    BY PartsAreSymbols
  <1>3. /\ C("write", 0) = <<>>
        /\ C("write", 1) = P("user_prefix")
        /\ C("write", 2) = C("write", 1) \o P("id")
        /\ C("write", 3) = C("write", 2) \o P(".")
        /\ C("write", 4) = C("write", 3) \o P("user_n")
        /\ C("write", 5) = C("write", 4) \o P("core_infix")
        /\ C("write", 6) = C("write", 5) \o P("core")
        /\ C("write", 7) = C("write", 6) \o P("newline")
    <2> HIDE DEF P
    <2>1. C("write", 0) = <<>>
      BY DEF Composed, WriteText
    <2>2. C("write", 1) = P("user_prefix")
      BY DEF Composed, WriteText, P
    <2>3. C("write", 2) = C("write", 1) \o P("id")
      BY DEF Composed, WriteText, P
    <2>4. C("write", 3) = C("write", 2) \o P(".")
      BY DEF Composed, WriteText, P
    <2>5. C("write", 4) = C("write", 3) \o P("user_n")
      BY DEF Composed, WriteText, P
    <2>6. C("write", 5) = C("write", 4) \o P("core_infix")
      BY DEF Composed, WriteText, P
    <2>7. C("write", 6) = C("write", 5) \o P("core")
      BY DEF Composed, WriteText, P
    <2>8. C("write", 7) = C("write", 6) \o P("newline")
      BY DEF Composed, WriteText, P
    <2>9. QED BY <2>1, <2>2, <2>3, <2>4, <2>5, <2>6, <2>7, <2>8
  <1>4. /\ C("puts", 0) = <<>>
        /\ C("puts", 1) = P("syscall_prefix")
        /\ C("puts", 2) = C("puts", 1) \o P("id")
        /\ C("puts", 3) = C("puts", 2) \o P(".")
        /\ C("puts", 4) = C("puts", 3) \o P("syscall_n")
        /\ C("puts", 5) = C("puts", 4) \o P("nul")
    <2> HIDE DEF P
    <2>1. C("puts", 0) = <<>>
      BY DEF Composed, PutsText
    <2>2. C("puts", 1) = P("syscall_prefix")
      BY DEF Composed, PutsText, P
    <2>3. C("puts", 2) = C("puts", 1) \o P("id")
      BY DEF Composed, PutsText, P
    <2>4. C("puts", 3) = C("puts", 2) \o P(".")
      BY DEF Composed, PutsText, P
    <2>5. C("puts", 4) = C("puts", 3) \o P("syscall_n")
      BY DEF Composed, PutsText, P
    <2>6. C("puts", 5) = C("puts", 4) \o P("nul")
      BY DEF Composed, PutsText, P
    <2>7. QED BY <2>1, <2>2, <2>3, <2>4, <2>5, <2>6
  <1>5. /\ P("user_prefix") \in Seq(Symbols) /\ P("syscall_prefix") \in Seq(Symbols)
        /\ P("id") \in Seq(Symbols) /\ P(".") \in Seq(Symbols) /\ P("user_n") \in Seq(Symbols)
        /\ P("core_infix") \in Seq(Symbols) /\ P("core") \in Seq(Symbols)
        /\ P("syscall_n") \in Seq(Symbols)
    BY <1>1 DEF NumberParts, Texts
  <1> HIDE DEF C, P
  <1> DEFINE S == Seq(Symbols)
  <1>6. \A s \in S : \A t \in S : s \o t \in S
    BY ConcatProperties
  <1>11. \A t \in S : <<>> \o t = t
    BY ConcatEmptySeq
  <1> HIDE DEF S
  <1>7. <<>> \in Seq(Symbols)
    BY EmptySeq
  <1>8. C(k, p) \in Seq(Symbols)
    <2>1. /\ C("write", 0) \in S /\ C("write", 1) \in S
          /\ C("puts", 0) \in S /\ C("puts", 1) \in S
      BY <1>3, <1>4, <1>5, <1>7, Zenon DEF S
    <2>2. C("write", 2) \in S /\ C("puts", 2) \in S
      BY <1>3, <1>4, <1>5, <1>6, <2>1, Zenon DEF S
    <2>3. C("write", 3) \in S /\ C("puts", 3) \in S
      BY <1>3, <1>4, <1>5, <1>6, <2>2, Zenon DEF S
    <2>4. C("write", 4) \in S /\ C("puts", 4) \in S
      BY <1>3, <1>4, <1>5, <1>6, <2>3, Zenon DEF S
    <2>5. C("write", 5) \in S
      BY <1>3, <1>5, <1>6, <2>4, Zenon DEF S
    <2>6. C("write", 6) \in S
      BY <1>3, <1>5, <1>6, <2>5, Zenon DEF S
    <2>7. QED BY <2>1, <2>2, <2>3, <2>4, <2>5, <2>6, Places, Zenon DEF S
  <1>9. C(k, p + 1) = C(k, p) \o P(Parts[k][p + 1])
    <2> DEFINE W == Parts["write"]
               Q == Parts["puts"]
    <2>1. /\ W[1] = "user_prefix" /\ W[2] = "id" /\ W[3] = "." /\ W[4] = "user_n"
          /\ W[5] = "core_infix" /\ W[6] = "core" /\ W[7] = "newline"
          /\ Q[1] = "syscall_prefix" /\ Q[2] = "id" /\ Q[3] = "." /\ Q[4] = "syscall_n"
          /\ Q[5] = "nul"
      BY DEF Parts
    <2>2. /\ C("write", 1) = C("write", 0) \o P("user_prefix")
          /\ C("puts", 1) = C("puts", 0) \o P("syscall_prefix")
      BY <1>3, <1>4, <1>5, <1>11, Zenon DEF S
    <2>3. /\ 0 + 1 = 1 /\ 1 + 1 = 2 /\ 2 + 1 = 3 /\ 3 + 1 = 4 /\ 4 + 1 = 5 /\ 5 + 1 = 6
          /\ 6 + 1 = 7
      OBVIOUS
    <2>4. CASE k = "write"
      <3>1. p = 0 \/ p = 1 \/ p = 2 \/ p = 3 \/ p = 4 \/ p = 5 \/ p = 6
        BY <2>4, Places
      <3>2. Parts[k] = W
        BY <2>4
      <3> HIDE DEF W, Q
      <3>3. CASE p = 0 \/ p = 1 \/ p = 2 \/ p = 3
        BY <1>3, <2>1, <2>2, <2>3, <2>4, <3>2, <3>3, Zenon
      <3>4. CASE p = 4 \/ p = 5 \/ p = 6
        BY <1>3, <2>1, <2>3, <2>4, <3>2, <3>4, Zenon
      <3>5. QED BY <3>1, <3>3, <3>4
    <2>5. CASE k = "puts"
      <3>1. p = 0 \/ p = 1 \/ p = 2 \/ p = 3 \/ p = 4
        BY <2>5, Places
      <3>2. Parts[k] = Q
        BY <2>5
      <3> HIDE DEF W, Q
      <3>3. QED BY <1>4, <2>1, <2>2, <2>3, <2>5, <3>1, <3>2, Zenon
    <2>6. QED BY <2>4, <2>5 DEF Kinds
  <1>10. QED BY <1>1, <1>2, <1>8, <1>9 DEF C, P

\* A number that is about to be appended is not yet part of the text.
LEMMA NumbersOfParts ==
    ASSUME NEW k \in Kinds, NEW p \in Nat, p < Len(Parts[k])
    PROVE  /\ Parts[k][p + 1] = "user_n" => k = "write" /\ p = 3
           /\ Parts[k][p + 1] = "syscall_n" => k = "puts" /\ p = 3
           /\ Parts[k][p + 1] = "core" => k = "write" /\ p = 5
  BY Places DEF Parts

LEMMA CountNotYetSaid ==
    ASSUME NEW k \in Kinds, NEW p \in Nat, p < Len(Parts[k]),
           Parts[k][p + 1] \in {"user_n", "syscall_n"},
           NEW d, NEW x, NEW y, NEW c
    PROVE  Composed(k, p, d, x, c) = Composed(k, p, d, y, c)
  <1>1. p = 3 /\ (k = "write" \/ k = "puts")
    BY NumbersOfParts
  <1>2. /\ Composed("write", 3, d, x, c) = Composed("write", 3, d, y, c)
        /\ Composed("puts", 3, d, x, c) = Composed("puts", 3, d, y, c)
    BY DEF Composed, WriteText, PutsText, Piece, Texts
  <1>3. QED BY <1>1, <1>2, Zenon

LEMMA CoreNotYetSaid ==
    ASSUME NEW k \in Kinds, NEW p \in Nat, p < Len(Parts[k]), Parts[k][p + 1] = "core",
           NEW d, NEW x, NEW c, NEW e
    PROVE  Composed(k, p, d, x, c) = Composed(k, p, d, x, e)
  <1>1. p = 5 /\ k = "write"
    BY NumbersOfParts
  <1>2. Composed("write", 5, d, x, c) = Composed("write", 5, d, x, e)
    BY DEF Composed, WriteText, PutsText, Piece, Texts
  <1>3. QED BY <1>1, <1>2, Zenon

\* The number of the last message, wherever the counter wraps.
LEMMA PreviousOf ==
    ASSUME NEW v \in Numbers
    PROVE  Previous(v) \in Numbers /\ Previous((v + 1) % Word) = v
  <1>1. v \in Nat /\ v < Word /\ Word \in Nat /\ Word > 1
    BY WordAssumption DEF Numbers
  <1>2. (v + Word - 1) % Word \in 0 .. Word - 1
    BY <1>1
  <1>3. (((v + 1) % Word) + Word - 1) % Word = v
    <2>1. CASE v + 1 = Word
      <3>1. (v + 1) % Word = 0
        BY <1>1, <2>1
      <3>2. (Word - 1) % Word = Word - 1
        BY <1>1
      <3>3. QED BY <1>1, <2>1, <3>1, <3>2
    <2>2. CASE v + 1 < Word
      <3>1. (v + 1) % Word = v + 1
        BY <1>1, <2>2
      <3>2. (v + Word) % Word = v
        BY <1>1
      <3>3. QED BY <1>1, <3>1, <3>2
    <2>3. QED BY <1>1, <2>1, <2>2
  <1>4. QED BY <1>2, <1>3 DEF Previous, Numbers

-----------------------------------------------------------------------------
(* What the buffer says, one lemma per action *)

\* Inside a message, the numbers in it are words.
LEMMA InMessage ==
    ASSUME IInv, pc \in {"compose", "number", "take"}, part < Len(Parts[kind])
    PROVE  /\ kind \in Kinds /\ part \in Nat
           /\ id \in Numbers /\ Count(kind) \in Numbers /\ core \in Numbers
           /\ SoFar \in Seq(Symbols)
           /\ Piece(Todo, id, Count(kind), core) \in Seq(Symbols)
           /\ Composed(kind, part + 1, id, Count(kind), core)
                = SoFar \o Piece(Todo, id, Count(kind), core)
           /\ Todo \in NumberParts =>
                Number \in Numbers /\ Piece(Todo, id, Count(kind), core) = Decimal(Number)
  <1>1. kind \in Kinds /\ part \in Nat
    BY DEF IInv, TypeInv, PlaceInv
  <1>2. id \in Numbers /\ Count(kind) \in Numbers /\ core \in Numbers
    BY PreviousOf DEF IInv, TypeInv, Count
  <1>3. Todo \in NumberParts =>
          Number \in Numbers /\ Piece(Todo, id, Count(kind), core) = Decimal(Number)
    <2>1. CASE Todo = "id"
      BY <1>2, <2>1 DEF Number, Piece, Texts
    <2>2. CASE Todo \in {"user_n", "syscall_n"}
      BY <1>2, <2>2 DEF Number, Piece, Texts
    <2>3. CASE Todo = "core"
      BY <1>2, <2>3 DEF Number, Piece, Texts
    <2>4. QED BY <2>1, <2>2, <2>3 DEF NumberParts
  <1> DEFINE q == Parts[kind][part + 1]
             n == Count(kind)
  <1>4. /\ Composed(kind, part, id, n, core) \in Seq(Symbols)
        /\ Piece(q, id, n, core) \in Seq(Symbols)
        /\ Composed(kind, part + 1, id, n, core)
             = Composed(kind, part, id, n, core) \o Piece(q, id, n, core)
    <2> HIDE DEF n
    <2>1. n \in Numbers
      BY <1>2 DEF n
    <2>2. part < Len(Parts[kind])
      OBVIOUS
    <2> HIDE DEF q
    <2>3. \A d \in Numbers, x \in Numbers, c \in Numbers :
            /\ Composed(kind, part, d, x, c) \in Seq(Symbols)
            /\ Piece(q, d, x, c) \in Seq(Symbols)
            /\ Composed(kind, part + 1, d, x, c) = Composed(kind, part, d, x, c) \o Piece(q, d, x, c)
      BY <1>1, <2>2, OnePartMore DEF q
    <2>4. QED BY <1>2, <2>1, <2>3, Zenon
  <1>5. Composed(kind, part, id, n, core) = SoFar /\ q = Todo
    BY DEF SoFar, Todo
  <1> HIDE DEF q, n
  <1>6. /\ SoFar \in Seq(Symbols) /\ Piece(Todo, id, n, core) \in Seq(Symbols)
        /\ Composed(kind, part + 1, id, n, core) = SoFar \o Piece(Todo, id, n, core)
    BY <1>4, <1>5, Zenon
  <1>7. QED BY <1>1, <1>2, <1>3, <1>6 DEF n

\* The text done and the number in progress are the same for the steps that leave
\* these variables alone.
LEMMA SameNumber ==
    ASSUME UNCHANGED <<id, kind, part, user_n, syscall_n, core>>
    PROVE  SoFar' = SoFar /\ Number' = Number /\ Todo' = Todo
  <1>1. Count(kind)' = Count(kind)
    BY DEF Count, Previous
  <1>2. Todo' = Todo
    BY DEF Todo
  <1>3. QED BY <1>1, <1>2 DEF SoFar, Number

LEMMA LoopText ==
    ASSUME IInv, TextInv, Stagger \/ Yield \/ Sleep \/ MaybeWrite \/ MaybePuts \/ Send
    PROVE  TextInv'
  <1>1. \/ pc' \in {"burst", "write?", "puts?"}
        \/ pc' = "compose" /\ msg' = <<>> /\ kind' \in Kinds /\ part' = 0
    BY DEF Stagger, Yield, Sleep, MaybeWrite, MaybePuts, Send, Begin, Skip, Kinds
  <1>2. \A k \in Kinds : \A d, x, c : Composed(k, 0, d, x, c) = <<>>
    BY DEF Composed, WriteText, PutsText, Kinds
  <1>3. pc' = "compose" => SoFar' = <<>>
    BY <1>1, <1>2 DEF SoFar
  <1>4. QED BY <1>1, <1>3 DEF TextInv

LEMMA AppendTextText ==
    ASSUME IInv, TextInv, AppendText
    PROVE  TextInv'
  <1>1. /\ pc = "compose" /\ pc' = "compose" /\ part < Len(Parts[kind]) /\ part' = part + 1
        /\ UNCHANGED <<id, kind, user_n, syscall_n, core>>
        /\ Todo \notin NumberParts
    BY DEF AppendText, More, NumberParts
  <1>2. msg = SoFar
    BY <1>1 DEF TextInv
  <1>3. msg' = msg \o Piece(Todo, id, Count(kind), core)
    <2>1. CASE Todo \in Texts
      <3>1. Piece(Todo, id, Count(kind), core) = [j \in 1 .. TextLen[Todo] |-> Todo]
        BY <2>1 DEF Piece, Texts
      <3>2. QED BY <2>1, <3>1 DEF AppendText
    <2>2. CASE Todo \notin Texts
      <3>1. Piece(Todo, id, Count(kind), core) = <<Todo>>
        BY <1>1, <2>2 DEF Piece, NumberParts
      <3>2. QED BY <2>2, <3>1 DEF AppendText
    <2>3. QED BY <2>1, <2>2
  <1>4. SoFar' = Composed(kind, part + 1, id, Count(kind), core)
    <2>1. Count(kind)' = Count(kind)
      BY <1>1 DEF Count, Previous
    <2>2. QED BY <1>1, <2>1 DEF SoFar
  <1>5. SoFar' = SoFar \o Piece(Todo, id, Count(kind), core)
    BY <1>1, <1>4, InMessage
  <1>6. QED BY <1>1, <1>2, <1>3, <1>5 DEF TextInv

\* The counter moves on as it is passed: it is now the count after this message's.
LEMMA CallNumberText ==
    ASSUME IInv, TextInv, CallNumber
    PROVE  TextInv'
  <1>1. /\ pc = "compose" /\ pc' = "number" /\ part < Len(Parts[kind]) /\ Todo \in NumberParts
        /\ UNCHANGED <<id, kind, part, msg, tmp>>
    BY DEF CallNumber, More, NumberParts
  <1>2. msg = SoFar /\ kind \in Kinds /\ part \in Nat
    BY <1>1, InMessage DEF TextInv
  <1>3. Todo' = Todo /\ Todo = Parts[kind][part + 1]
    BY <1>1 DEF Todo
  <1>4. user_n \in Numbers /\ syscall_n \in Numbers
    BY DEF IInv, TypeInv
  <1>5. CASE Todo = "id"
    <2>1. UNCHANGED <<user_n, syscall_n, core>> /\ val' = id
      BY <1>5 DEF CallNumber
    <2>2. SoFar' = SoFar /\ Number' = id
      BY <1>1, <1>5, <2>1, SameNumber DEF Number
    <2>3. QED BY <1>1, <1>2, <2>1, <2>2 DEF TextInv
  <1>6. CASE Todo = "user_n"
    <2>1. /\ user_n' = (user_n + 1) % Word /\ val' = user_n /\ UNCHANGED core
          /\ kind = "write"
      BY <1>1, <1>2, <1>3, <1>6, NumbersOfParts DEF CallNumber
    <2>2. Count(kind)' = user_n
      BY <1>1, <1>4, <2>1, PreviousOf DEF Count
    <2>3. Number' = user_n
      BY <1>3, <1>6, <2>2 DEF Number
    <2>4. SoFar' = SoFar
      <3>1. SoFar' = Composed(kind, part, id, user_n, core)
        BY <1>1, <2>1, <2>2 DEF SoFar
      <3>2. Composed(kind, part, id, Count(kind), core) = Composed(kind, part, id, user_n, core)
        BY <1>1, <1>2, <1>3, <1>6, CountNotYetSaid
      <3>3. QED BY <3>1, <3>2 DEF SoFar
    <2>5. QED BY <1>1, <1>2, <2>1, <2>3, <2>4 DEF TextInv
  <1>7. CASE Todo = "syscall_n"
    <2>1. /\ syscall_n' = (syscall_n + 1) % Word /\ val' = syscall_n /\ UNCHANGED core
          /\ kind = "puts"
      BY <1>1, <1>2, <1>3, <1>7, NumbersOfParts DEF CallNumber
    <2>2. Count(kind)' = syscall_n
      BY <1>1, <1>4, <2>1, PreviousOf DEF Count
    <2>3. Number' = syscall_n
      BY <1>3, <1>7, <2>2 DEF Number
    <2>4. SoFar' = SoFar
      <3>1. SoFar' = Composed(kind, part, id, syscall_n, core)
        BY <1>1, <2>1, <2>2 DEF SoFar
      <3>2. Composed(kind, part, id, Count(kind), core) = Composed(kind, part, id, syscall_n, core)
        BY <1>1, <1>2, <1>3, <1>7, CountNotYetSaid
      <3>3. QED BY <3>1, <3>2 DEF SoFar
    <2>5. QED BY <1>1, <1>2, <2>1, <2>3, <2>4 DEF TextInv
  <1>8. CASE Todo = "core"
    <2>1. UNCHANGED <<user_n, syscall_n>> /\ val' = core'
      BY <1>8 DEF CallNumber
    <2>2. Number' = core'
      BY <1>3, <1>8 DEF Number
    <2>3. SoFar' = SoFar
      <3>1. Count(kind)' = Count(kind)
        BY <1>1, <2>1 DEF Count, Previous
      <3>2. SoFar' = Composed(kind, part, id, Count(kind), core')
        BY <1>1, <3>1 DEF SoFar
      <3>3. Composed(kind, part, id, Count(kind), core) = Composed(kind, part, id, Count(kind), core')
        <4>1. kind \in Kinds /\ part \in Nat /\ part < Len(Parts[kind]) /\ Parts[kind][part + 1] = "core"
          BY <1>1, <1>2, <1>3, <1>8, Zenon
        <4>2. \A d, x, c, e : Composed(kind, part, d, x, c) = Composed(kind, part, d, x, e)
          BY <4>1, CoreNotYetSaid
        <4>3. QED BY <4>2, Zenon
      <3>4. QED BY <3>2, <3>3 DEF SoFar
    <2>4. QED BY <1>1, <1>2, <2>1, <2>2, <2>3 DEF TextInv
  <1>9. QED BY <1>1, <1>5, <1>6, <1>7, <1>8 DEF NumberParts

\* The number is in the buffer: that part is done too.
LEMMA NumberText ==
    ASSUME IInv, pc \in {"number", "take"}, pc' = "compose", part' = part + 1,
           UNCHANGED <<id, kind, user_n, syscall_n, core>>,
           msg' = SoFar \o Decimal(Number)
    PROVE  TextInv'
  <1>1. part < Len(Parts[kind]) /\ Todo \in NumberParts
    BY DEF IInv, PlaceInv
  <1>2. SoFar' = Composed(kind, part + 1, id, Count(kind), core)
    <2>1. Count(kind)' = Count(kind)
      BY DEF Count, Previous
    <2>2. QED BY <2>1 DEF SoFar
  <1>3. SoFar' = SoFar \o Decimal(Number)
    BY <1>1, <1>2, InMessage
  <1>4. QED BY <1>3 DEF TextInv

LEMMA ZeroText ==
    ASSUME IInv, TextInv, Zero
    PROVE  TextInv'
  <1>1. pc = "number" /\ msg' = Append(msg, 0) /\ msg = SoFar /\ Number = 0
    BY DEF Zero, TextInv
  <1>2. part < Len(Parts[kind])
    BY <1>1 DEF IInv, PlaceInv
  <1>3. SoFar \in Seq(Symbols) /\ 0 \in Symbols
    BY <1>1, <1>2, InMessage DEF Symbols
  <1>4. msg' = SoFar \o Decimal(Number)
    BY <1>1, <1>3, DecimalOfZero, AppendIsConcat
  <1>5. QED BY <1>1, <1>4, NumberText DEF Zero

LEMMA NumberDoneText ==
    ASSUME IInv, TextInv, NumberDone
    PROVE  TextInv'
  <1>1. /\ pc = "take" /\ tmp = <<>> /\ msg' = msg
        /\ msg = SoFar \o SubSeq(Decimal(Number), 1, Digits(Number) - Len(tmp))
    BY DEF NumberDone, TextInv
  <1>2. part < Len(Parts[kind]) /\ Todo \in NumberParts
    BY <1>1 DEF IInv, PlaceInv
  <1>3. Number \in Numbers
    BY <1>1, <1>2, InMessage
  <1> DEFINE D == Decimal(Number)
             e == Digits(Number)
  <1>4. D \in Seq(0 .. 9) /\ Len(D) = e /\ e \in Nat
    BY <1>3, DecimalTyped, DigitsOf
  <1>5. SubSeq(D, 1, e - Len(tmp)) = D
    <2> HIDE DEF D, e
    <2>1. e - Len(tmp) = Len(D)
      BY <1>1, <1>4
    <2>2. SubSeq(D, 1, Len(D)) = D
      BY <1>4, SubSeqFull
    <2>3. QED BY <2>1, <2>2
  <1>6. msg' = SoFar \o Decimal(Number)
    BY <1>1, <1>5
  <1>7. QED BY <1>1, <1>6, NumberText DEF NumberDone

LEMMA TakeDigitText ==
    ASSUME IInv, TextInv, TakeDigit
    PROVE  TextInv'
  <1>1. /\ pc \in {"number", "take"} /\ val # 0 /\ pc' = "take"
        /\ tmp' = Append(tmp, val % 10) /\ val' = val \div 10
        /\ UNCHANGED <<id, user_n, syscall_n, kind, part, msg, core>>
    BY DEF TakeDigit
  <1>2. part < Len(Parts[kind]) /\ Todo \in NumberParts
    BY <1>1 DEF IInv, PlaceInv
  <1>3. Number \in Numbers /\ SoFar \in Seq(Symbols)
    BY <1>1, <1>2, InMessage
  <1> DEFINE L == Len(tmp)
             N == Number
  <1>4. /\ tmp \in Seq(0 .. 9) /\ L \in 0 .. TmpSize /\ val \in Nat
        /\ pc = "number" => tmp = <<>>
    BY <1>1, LenProperties, Sizes DEF IInv, TypeInv, DigitInv, Numbers
  <1>5. /\ msg = SoFar /\ val = N \div Power[L]
        /\ \A j \in 1 .. L : tmp[j] = (N \div Power[j - 1]) % 10
    <2>1. CASE pc = "number"
      <3>1. L = 0 /\ Power[0] = 1
        BY <1>4, <2>1, PowerAssumption
      <3>2. N \div 1 = N
        BY <1>3, WordAssumption DEF Numbers
      <3>3. QED BY <2>1, <3>1, <3>2 DEF TextInv
    <2>2. CASE pc = "take"
      BY <1>1, <2>2 DEF TextInv
    <2>3. QED BY <1>1, <2>1, <2>2
  <1>6. SoFar' = SoFar /\ Number' = N
    BY <1>1, SameNumber
  <1>7. /\ L < Digits(N) /\ L + 1 \in 1 .. TmpSize /\ val' = N \div Power[L + 1]
        /\ N \div Power[L + 1] = 0 => Digits(N) = L + 1
        /\ N \div Power[L + 1] # 0 => L + 1 < Digits(N)
    <2> HIDE DEF L, N
    <2>1. N \div Power[L] # 0
      BY <1>1, <1>5
    <2>2. N \in Numbers
      BY <1>3 DEF N
    <2>3. QED BY <1>1, <1>4, <1>5, <2>1, <2>2, DigitTaken
  <1>8. val % 10 \in 0 .. 9
    BY <1>4
  <1>9. /\ Len(tmp') = L + 1 /\ tmp'[L + 1] = val % 10
        /\ \A j \in 1 .. L : tmp'[j] = tmp[j]
    BY <1>1, <1>4, <1>8, AppendProperties
  <1>10. Digits(N) \in Nat
    BY <1>3, DigitsOf
  <1>11. \A j \in 1 .. L + 1 : tmp'[j] = (N \div Power[j - 1]) % 10
    <2> HIDE DEF L, N
    <2> SUFFICES ASSUME NEW j \in 1 .. L + 1
                 PROVE  tmp'[j] = (N \div Power[j - 1]) % 10
      OBVIOUS
    <2>1. CASE j \in 1 .. L
      BY <1>5, <1>9, <2>1
    <2>2. CASE j = L + 1
      <3>1. j - 1 = L
        BY <1>4, <2>2
      <3>2. QED BY <1>5, <1>9, <2>2, <3>1
    <2>3. QED BY <1>4, <2>1, <2>2
  <1> HIDE DEF L, N
  <1>12. L + 1 <= Digits(N)
    BY <1>4, <1>7, <1>10
  <1>13. val' # 0 => msg' = SoFar /\ val' = N \div Power[L + 1]
    BY <1>1, <1>5, <1>7
  <1>14. val' = 0 => msg' = SoFar \o SubSeq(Decimal(N), 1, Digits(N) - (L + 1))
    <2> SUFFICES ASSUME val' = 0
                 PROVE  msg' = SoFar \o SubSeq(Decimal(N), 1, Digits(N) - (L + 1))
      OBVIOUS
    <2>1. Digits(N) - (L + 1) = 0
      BY <1>4, <1>7, <1>10
    <2>2. SubSeq(Decimal(N), 1, 0) = <<>>
      BY SubSeqEmpty
    <2>3. SoFar \o <<>> = SoFar
      BY <1>3, ConcatEmptySeq
    <2>4. QED BY <1>1, <1>5, <2>1, <2>2, <2>3
  <1>15. QED BY <1>1, <1>6, <1>9, <1>11, <1>12, <1>13, <1>14 DEF TextInv

LEMMA PutDigitText ==
    ASSUME IInv, TextInv, PutDigit
    PROVE  TextInv'
  <1>1. /\ pc = "take" /\ val = 0 /\ tmp # <<>> /\ pc' = pc /\ val' = val
        /\ msg' = Append(msg, tmp[Len(tmp)]) /\ tmp' = SubSeq(tmp, 1, Len(tmp) - 1)
        /\ UNCHANGED <<id, user_n, syscall_n, kind, part, core>>
    BY DEF PutDigit
  <1>2. part < Len(Parts[kind]) /\ Todo \in NumberParts
    BY <1>1 DEF IInv, PlaceInv
  <1>3. Number \in Numbers /\ SoFar \in Seq(Symbols)
    BY <1>1, <1>2, InMessage
  <1> DEFINE L == Len(tmp)
             D == Decimal(Number)
             e == Digits(Number)
  <1>4. tmp \in Seq(0 .. 9) /\ L \in Nat \ {0}
    BY <1>1, LenProperties, EmptySeq DEF IInv, TypeInv
  <1>5. /\ L <= e /\ \A j \in 1 .. L : tmp[j] = (Number \div Power[j - 1]) % 10
        /\ msg = SoFar \o SubSeq(D, 1, e - L)
    BY <1>1 DEF TextInv
  <1>6. /\ D \in Seq(0 .. 9) /\ Len(D) = e /\ e \in Nat
        /\ \A j \in 1 .. e : D[j] = (Number \div Power[e - j]) % 10
    BY <1>3, DecimalTyped, DigitsOf
  <1>7. SoFar' = SoFar /\ Number' = Number
    BY <1>1, SameNumber
  <1>8. L - 1 \in Nat /\ e - (L - 1) \in 1 .. e /\ e - (L - 1) = (e - L) + 1
    <2> HIDE DEF L, e
    <2>1. QED BY <1>4, <1>5, <1>6
  <1> DEFINE m == e - (L - 1)
  <1>9. tmp[L] = D[m]
    <2>1. tmp[L] = (Number \div Power[L - 1]) % 10
      <3> HIDE DEF L
      <3>1. QED BY <1>4, <1>5
    <2>2. e - m = L - 1 /\ m \in 1 .. e
      <3> HIDE DEF L, e
      <3>1. QED BY <1>4, <1>5, <1>6
    <2> HIDE DEF m, L, e, D
    <2>3. QED BY <1>6, <2>1, <2>2
  <1>10. msg' = SoFar \o SubSeq(D, 1, m)
    <2> DEFINE s == SubSeq(D, 1, m - 1)
               S == Symbols
    <2>1. SubSeq(D, 1, m) = SubSeq(D, 1, m - 1) \o <<D[m]>>
      <3> HIDE DEF m, L, e, D
      <3>1. 1 \in 1 .. Len(D) /\ m \in 1 .. Len(D)
        BY <1>6, <1>8 DEF m
      <3>2. QED BY <1>6, <3>1, SubSeqRecursiveSecond
    <2>2. s \in Seq(S) /\ D[m] \in S
      <3>1. \A j \in 1 .. e : D[j] \in Symbols
        <4> HIDE DEF L, e, D
        <4>1. \A j \in 1 .. e : D[j] \in 0 .. 9
          BY <1>6, ElementOfSeq
        <4>2. QED BY <4>1 DEF Symbols
      <3> HIDE DEF L, e, D, S, m
      <3>2. m \in 1 .. e /\ m - 1 \in Int /\ e \in Nat
        BY <1>6, <1>8 DEF m
      <3>3. \A j \in 1 .. m - 1 : D[j] \in S
        BY <3>1, <3>2 DEF S
      <3>4. SubSeq(D, 1, m - 1) \in Seq(S)
        BY <3>2, <3>3, SubSeqProperties
      <3>5. QED BY <3>1, <3>2, <3>4 DEF S
    <2>3. msg = SoFar \o s
      <3>1. e - L = m - 1
        <4> HIDE DEF L, e
        <4>1. QED BY <1>4, <1>6
      <3> HIDE DEF L, e, D, m
      <3>2. QED BY <1>5, <3>1
    <2>4. msg' = Append(msg, D[m])
      BY <1>1, <1>9
    <2>5. SoFar \in Seq(S)
      BY <1>3
    <2> HIDE DEF s, m, D, S
    <2>6. SoFar \o s \in Seq(S) /\ <<D[m]>> \in Seq(S)
      BY <2>2, <2>5, ConcatProperties
    <2>7. Append(SoFar \o s, D[m]) = (SoFar \o s) \o <<D[m]>>
      BY <2>2, <2>6, AppendIsConcat
    <2>8. (SoFar \o s) \o <<D[m]>> = SoFar \o (s \o <<D[m]>>)
      BY <2>2, <2>5, <2>6, ConcatAssociative
    <2>9. QED BY <2>1, <2>3, <2>4, <2>7, <2>8 DEF s
  <1>11. /\ Len(tmp') = L - 1 /\ \A j \in 1 .. L - 1 : tmp'[j] = tmp[j]
    <2> DEFINE h == L - 1
    <2>1. tmp' = SubSeq(tmp, 1, h) /\ h \in Nat /\ \A j \in 1 .. h : tmp[j] \in 0 .. 9
      BY <1>1, <1>4, ElementOfSeq
    <2> HIDE DEF h
    <2>2. /\ Len(SubSeq(tmp, 1, h)) = IF 1 <= h THEN h - 1 + 1 ELSE 0
          /\ \A j \in 1 .. h - 1 + 1 : SubSeq(tmp, 1, h)[j] = tmp[1 + j - 1]
      BY <2>1, SubSeqProperties
    <2>3. Len(SubSeq(tmp, 1, h)) = h /\ \A j \in 1 .. h : SubSeq(tmp, 1, h)[j] = tmp[j]
      BY <2>1, <2>2
    <2>4. QED BY <2>1, <2>3 DEF h
  <1>12. L - 1 <= e /\ \A j \in 1 .. L - 1 : tmp'[j] = (Number \div Power[j - 1]) % 10
    <2> HIDE DEF L, e
    <2>1. QED BY <1>4, <1>5, <1>6, <1>11
  <1> HIDE DEF L
  <1>13. QED BY <1>1, <1>7, <1>10, <1>11, <1>12 DEF TextInv

-----------------------------------------------------------------------------
\* What the buffer holds, part by part and digit by digit, throughout u_append()
\* and u_append_u32().
THEOREM TextInvariant == Spec => []TextInv
<1>1. Init => TextInv
  BY DEF Init, TextInv
<1>2. IInv /\ TextInv /\ UNCHANGED vars => TextInv'
  <2> SUFFICES ASSUME TextInv, UNCHANGED vars
               PROVE  TextInv'
    OBVIOUS
  <2>1. SoFar' = SoFar /\ Number' = Number
    BY SameNumber DEF vars
  <2>2. QED BY <2>1 DEF vars, TextInv
<1>3. IInv /\ TextInv /\ Next => TextInv'
  BY LoopText, AppendTextText, CallNumberText, ZeroText, TakeDigitText, PutDigitText,
     NumberDoneText DEF Next
<1>4. QED BY <1>1, <1>2, <1>3, UserInvariant, PTL DEF Spec

\* A message is passed to the kernel as the source spells it out: the slot, the
\* number after that of the message before, wrapping, and each number as its
\* decimal digits, whatever its size.
THEOREM MessagesAreExact == Spec => []MessagesExact
<1>1. IInv /\ TextInv => MessagesExact
  <2> SUFFICES ASSUME IInv, TextInv, pc = "compose", kind # "none", part = Len(Parts[kind])
               PROVE  MessagesExact
    BY DEF MessagesExact
  <2>1. kind \in Kinds /\ msg = Composed(kind, part, id, Count(kind), core)
    BY DEF IInv, TypeInv, TextInv, SoFar
  <2>2. CASE kind = "write"
    <3>1. part = 7 /\ Count(kind) = Previous(user_n)
      BY <2>2 DEF Parts, Count
    <3>2. msg = WriteText(7, id, Previous(user_n), core)
      BY <2>1, <2>2, <3>1 DEF Composed
    <3> DEFINE P(q) == Piece(q, id, Previous(user_n), core)
    <3>3. msg = P("user_prefix") \o P("id") \o P(".") \o P("user_n") \o P("core_infix")
                  \o P("core") \o P("newline")
      BY <3>2 DEF WriteText
    <3>4. /\ P("user_prefix") = [j \in 1 .. TextLen["user_prefix"] |-> "user_prefix"]
          /\ P("core_infix") = [j \in 1 .. TextLen["core_infix"] |-> "core_infix"]
          /\ P("id") = Decimal(id) /\ P("user_n") = Decimal(Previous(user_n))
          /\ P("core") = Decimal(core) /\ P(".") = <<".">> /\ P("newline") = <<"newline">>
      BY DEF Piece, Texts
    <3> HIDE DEF P
    <3>5. QED BY <2>2, <3>3, <3>4 DEF MessagesExact
  <2>3. CASE kind = "puts"
    <3>1. part = 5 /\ Count(kind) = Previous(syscall_n)
      BY <2>3 DEF Parts, Count
    <3>2. msg = PutsText(5, id, Previous(syscall_n), core)
      BY <2>1, <2>3, <3>1 DEF Composed
    <3> DEFINE P(q) == Piece(q, id, Previous(syscall_n), core)
    <3>3. msg = P("syscall_prefix") \o P("id") \o P(".") \o P("syscall_n") \o P("nul")
      BY <3>2 DEF PutsText
    <3>4. /\ P("syscall_prefix") = [j \in 1 .. TextLen["syscall_prefix"] |-> "syscall_prefix"]
          /\ P("id") = Decimal(id) /\ P("syscall_n") = Decimal(Previous(syscall_n))
          /\ P(".") = <<".">> /\ P("nul") = <<"nul">>
      BY DEF Piece, Texts
    <3> HIDE DEF P
    <3>5. QED BY <2>3, <3>3, <3>4 DEF MessagesExact
  <2>4. QED BY <2>1, <2>2, <2>3 DEF Kinds
<1>2. QED BY <1>1, UserInvariant, TextInvariant, PTL
=============================================================================
