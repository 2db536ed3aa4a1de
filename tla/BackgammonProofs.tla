--------------------------- MODULE BackgammonProofs ---------------------------
(***************************************************************************)
(* Proofs about Backgammon, for any dice and any bound on the messages       *)
(* under way.                                                                *)
(*                                                                         *)
(* What makes the invariants inductive is what they say of the messages      *)
(* under way.  Of the introductions, in any number of matches: a check-in    *)
(* and a request follow every NewMatch, and whose check-in the server has    *)
(* seen is told of both.  Of the first match: the writes of the two are      *)
(* never under way at once, and the state a client has, or is to get, is     *)
(* that write away from the one of the server.  They say nothing once a      *)
(* player has gone, but for the types.                                       *)
(***************************************************************************)
EXTENDS Backgammon, TLAPS

-----------------------------------------------------------------------------
(* Messages *)

StateRequest == [type |-> "stateRequest"]
RollRequest == [type |-> "rollRequest"]
MatchRequest == [type |-> "newMatch"]
StateMsg(st) == [type |-> "state", state |-> st]
DiceMsg(y, d) == [type |-> "diceRoll", seat |-> y, value |-> d]

Refused(s) == Transaction(<<Item("Score", s, 1), Item("Score", 2, 1)>>)
BeginTx == Transaction(<<Item("BGState", -1, "initialRoll")>>)
MoveTx(s, points) ==
    Transaction(<<Item("BGState", -1, "move"), Item("Score", s, points),
                  Item("ActiveSeat", -1, Other(s))>>)
EndTx == Transaction(<<Item("BGState", -1, "matchOver")>>)

Moves(s) == {MoveTx(s, 0), MoveTx(s, 1)}
Writes(s) == {BeginTx, EndTx} \cup Moves(s)
StateMsgs == {StateMsg(st) : st \in States}
DiceMsgs(y) == {DiceMsg(y, d) : d \in Die}

UpMsg(s) ==
    {CheckIn(TRUE), CheckIn(FALSE), StateRequest, RollRequest, MatchRequest, Refused(s)}
      \cup Writes(s)
DownMsg(s) ==
    {CheckInOf(0), CheckInOf(1)} \cup StateMsgs \cup DiceMsgs(0) \cup DiceMsgs(1)
      \cup Writes(Other(s))

-----------------------------------------------------------------------------
(* What is under way *)

Has(q, S) == \E i \in DOMAIN q : q[i] \in S
Once(q, S) == \A i, j \in DOMAIN q : q[i] \in S /\ q[j] \in S => i = j
Before(q, S, T) == \A i, j \in DOMAIN q : q[i] \in S /\ q[j] \in T => i < j
Followed(q, S, T) == \A i \in DOMAIN q : q[i] \in S => \E j \in DOMAIN q : i < j /\ q[j] \in T

\* The first message is taken.
LEMMA HeadTaken ==
    ASSUME NEW M, NEW q \in Seq(M), q # <<>>
    PROVE  /\ Head(q) \in M /\ Tail(q) \in Seq(M)
           /\ Len(q) \in Nat /\ Len(Tail(q)) = Len(q) - 1
           /\ \A S : Has(q, S) <=> Head(q) \in S \/ Has(Tail(q), S)
           /\ \A S : Once(q, S) => Once(Tail(q), S) /\ (Head(q) \in S => ~Has(Tail(q), S))
           /\ \A S, T : Before(q, S, T) =>
                 Before(Tail(q), S, T) /\ (Head(q) \in T => ~Has(q, S))
           /\ \A S, T : Followed(q, S, T) =>
                 Followed(Tail(q), S, T) /\ (Head(q) \in S => Has(Tail(q), T))
<1> DEFINE r == Tail(q)
           n == Len(q)
<1>1. /\ n \in Nat /\ n >= 1 /\ DOMAIN q = 1 .. n
      /\ Len(r) = n - 1 /\ DOMAIN r = 1 .. n - 1
      /\ \A i \in 1 .. n - 1 : r[i] = q[i + 1]
      /\ Head(q) = q[1] /\ q[1] \in M /\ r \in Seq(M)
    OBVIOUS
<1> HIDE DEF r, n
<1>2. \A S : Has(q, S) <=> q[1] \in S \/ Has(r, S)
    <2> SUFFICES ASSUME NEW S PROVE Has(q, S) <=> q[1] \in S \/ Has(r, S)
        OBVIOUS
    <2>1. ASSUME NEW i \in 1 .. n, q[i] \in S, i # 1 PROVE r[i - 1] \in S /\ i - 1 \in 1 .. n - 1
        BY <1>1, <2>1
    <2>2. ASSUME NEW i \in 1 .. n - 1, r[i] \in S PROVE i + 1 \in 1 .. n /\ q[i + 1] \in S
        BY <1>1, <2>2
    <2>3. ASSUME Has(q, S) PROVE q[1] \in S \/ Has(r, S)
        BY <1>1, <2>1, <2>3 DEF Has
    <2>4. ASSUME Has(r, S) PROVE Has(q, S)
        <3>1. PICK i \in 1 .. n - 1 : r[i] \in S
            BY <1>1, <2>4 DEF Has
        <3> QED
            BY <1>1, <2>2, <3>1 DEF Has
    <2>5. ASSUME q[1] \in S PROVE Has(q, S)
        BY <1>1, <2>5 DEF Has
    <2> QED
        BY <2>3, <2>4, <2>5
<1>3. \A S : Once(q, S) => Once(r, S) /\ (q[1] \in S => ~Has(r, S))
    <2> SUFFICES ASSUME NEW S, Once(q, S) PROVE Once(r, S) /\ (q[1] \in S => ~Has(r, S))
        OBVIOUS
    <2>1. \A i, j \in 1 .. n : q[i] \in S /\ q[j] \in S => i = j
        BY <1>1 DEF Once
    <2>2. ASSUME NEW i \in 1 .. n - 1, NEW j \in 1 .. n - 1, r[i] \in S, r[j] \in S PROVE i = j
        <3>1. i + 1 \in 1 .. n /\ j + 1 \in 1 .. n
            BY <1>1
        <3>2. i + 1 = j + 1
            BY <1>1, <2>1, <2>2, <3>1
        <3> QED
            BY <3>2
    <2>3. ASSUME NEW i \in 1 .. n - 1, r[i] \in S, q[1] \in S PROVE FALSE
        <3>1. i + 1 \in 1 .. n /\ 1 \in 1 .. n /\ i + 1 # 1
            BY <1>1
        <3> QED
            BY <1>1, <2>1, <2>3, <3>1
    <2> QED
        BY <1>1, <2>2, <2>3 DEF Once, Has
<1>4. \A S, T : Before(q, S, T) => Before(r, S, T) /\ (q[1] \in T => ~Has(q, S))
    <2> SUFFICES ASSUME NEW S, NEW T, Before(q, S, T)
                 PROVE  Before(r, S, T) /\ (q[1] \in T => ~Has(q, S))
        OBVIOUS
    <2>1. \A i, j \in 1 .. n : q[i] \in S /\ q[j] \in T => i < j
        BY <1>1 DEF Before
    <2>2. ASSUME NEW i \in 1 .. n - 1, NEW j \in 1 .. n - 1, r[i] \in S, r[j] \in T PROVE i < j
        <3>1. i + 1 \in 1 .. n /\ j + 1 \in 1 .. n
            BY <1>1
        <3>2. i + 1 < j + 1
            BY <1>1, <2>1, <2>2, <3>1
        <3> QED
            BY <3>2
    <2>3. ASSUME NEW i \in 1 .. n, q[i] \in S, q[1] \in T PROVE FALSE
        <3>1. 1 \in 1 .. n /\ ~(i < 1)
            BY <1>1
        <3> QED
            BY <2>1, <2>3, <3>1
    <2> QED
        BY <1>1, <2>2, <2>3 DEF Before, Has
<1>5. \A S, T : Followed(q, S, T) => Followed(r, S, T) /\ (q[1] \in S => Has(r, T))
    <2> SUFFICES ASSUME NEW S, NEW T, Followed(q, S, T)
                 PROVE  Followed(r, S, T) /\ (q[1] \in S => Has(r, T))
        OBVIOUS
    <2>1. \A i \in 1 .. n : q[i] \in S => \E j \in 1 .. n : i < j /\ q[j] \in T
        BY <1>1 DEF Followed
    <2>2. ASSUME NEW i \in 1 .. n - 1, r[i] \in S PROVE \E j \in 1 .. n - 1 : i < j /\ r[j] \in T
        <3>1. i + 1 \in 1 .. n /\ q[i + 1] \in S
            BY <1>1, <2>2
        <3>2. PICK j \in 1 .. n : i + 1 < j /\ q[j] \in T
            BY <2>1, <3>1
        <3>3. j - 1 \in 1 .. n - 1 /\ i < j - 1 /\ r[j - 1] \in T
            BY <1>1, <3>2
        <3> QED
            BY <3>3
    <2>3. ASSUME q[1] \in S PROVE \E j \in 1 .. n - 1 : r[j] \in T
        <3>1. 1 \in 1 .. n
            BY <1>1
        <3>2. PICK j \in 1 .. n : 1 < j /\ q[j] \in T
            BY <2>1, <2>3, <3>1
        <3>3. j - 1 \in 1 .. n - 1 /\ r[j - 1] \in T
            BY <1>1, <3>2
        <3> QED
            BY <3>3
    <2> QED
        BY <1>1, <2>2, <2>3 DEF Followed, Has
<1> QED
    BY <1>1, <1>2, <1>3, <1>4, <1>5 DEF r, n

\* Messages are added at the end.
LEMMA Appended ==
    ASSUME NEW M, NEW q \in Seq(M), NEW r \in Seq(M)
    PROVE  /\ q \o r \in Seq(M) /\ Len(q \o r) = Len(q) + Len(r)
           /\ \A S : Has(q \o r, S) <=> Has(q, S) \/ Has(r, S)
           /\ \A S : Once(q, S) /\ ~Has(r, S) => Once(q \o r, S)
           /\ \A S : Once(r, S) /\ ~Has(q, S) => Once(q \o r, S)
           /\ \A S, T : Before(q, S, T) /\ Before(r, S, T) /\ ~(Has(q, T) /\ Has(r, S))
                 => Before(q \o r, S, T)
           /\ \A S, T : (Followed(q, S, T) \/ Has(r, T)) /\ Followed(r, S, T)
                 => Followed(q \o r, S, T)
<1> DEFINE c == q \o r
           m == Len(q)
           n == Len(r)
<1>1. /\ m \in Nat /\ n \in Nat /\ DOMAIN q = 1 .. m /\ DOMAIN r = 1 .. n
      /\ DOMAIN c = 1 .. m + n /\ Len(c) = m + n /\ c \in Seq(M)
    OBVIOUS
<1>2. \A i \in 1 .. m : i \in 1 .. m + n /\ c[i] = q[i]
    OBVIOUS
<1>3. \A i \in 1 .. n : m + i \in 1 .. m + n /\ c[m + i] = r[i]
    OBVIOUS
<1> HIDE DEF c, m, n
<1>4. ASSUME NEW i \in 1 .. m + n
      PROVE  i \in 1 .. m \/ (i - m \in 1 .. n /\ i = m + (i - m) /\ c[i] = r[i - m])
    <2>1. i \in 1 .. m \/ (i - m \in 1 .. n /\ i = m + (i - m))
        BY <1>1
    <2> QED
        BY <1>3, <2>1
<1>5. \A S : Has(c, S) <=> Has(q, S) \/ Has(r, S)
    BY <1>1, <1>2, <1>3, <1>4 DEF Has
<1>6. ASSUME NEW S, Once(q, S), ~Has(r, S) PROVE Once(c, S)
    BY <1>1, <1>2, <1>4, <1>6 DEF Once, Has
<1>7. ASSUME NEW S, Once(r, S), ~Has(q, S) PROVE Once(c, S)
    <2> SUFFICES ASSUME NEW i \in 1 .. m + n, NEW j \in 1 .. m + n, c[i] \in S, c[j] \in S
                 PROVE  i = j
        BY <1>1 DEF Once
    <2>1. i - m \in 1 .. n /\ r[i - m] \in S /\ j - m \in 1 .. n /\ r[j - m] \in S
        BY <1>1, <1>2, <1>4, <1>7 DEF Has
    <2>2. i - m = j - m
        BY <1>1, <1>7, <2>1 DEF Once
    <2> QED
        BY <1>1, <2>2
<1>8. ASSUME NEW S, NEW T, Before(q, S, T), Before(r, S, T), ~(Has(q, T) /\ Has(r, S))
      PROVE  Before(c, S, T)
    <2> SUFFICES ASSUME NEW i \in 1 .. m + n, NEW j \in 1 .. m + n, c[i] \in S, c[j] \in T
                 PROVE  i < j
        BY <1>1 DEF Before
    <2>1. CASE i \in 1 .. m /\ j \in 1 .. m
        BY <1>1, <1>2, <1>8, <2>1 DEF Before
    <2>2. CASE i \in 1 .. m /\ j \notin 1 .. m
        BY <1>1, <2>2
    <2>3. CASE i \notin 1 .. m /\ j \in 1 .. m
        <3>1. r[i - m] \in S /\ i - m \in 1 .. n /\ q[j] \in T
            BY <1>2, <1>4, <2>3
        <3> QED
            BY <1>1, <1>8, <2>3, <3>1 DEF Has
    <2>4. CASE i \notin 1 .. m /\ j \notin 1 .. m
        <3>1. r[i - m] \in S /\ i - m \in 1 .. n /\ r[j - m] \in T /\ j - m \in 1 .. n
            BY <1>4, <2>4
        <3>2. i - m < j - m
            BY <1>1, <1>8, <3>1 DEF Before
        <3> QED
            BY <1>1, <3>2
    <2> QED
        BY <2>1, <2>2, <2>3, <2>4
<1>9. ASSUME NEW S, NEW T, Followed(q, S, T) \/ Has(r, T), Followed(r, S, T)
      PROVE  Followed(c, S, T)
    <2> SUFFICES ASSUME NEW i \in 1 .. m + n, c[i] \in S
                 PROVE  \E j \in 1 .. m + n : i < j /\ c[j] \in T
        BY <1>1 DEF Followed
    <2>1. CASE i \in 1 .. m
        <3>1. CASE Followed(q, S, T)
            BY <1>1, <1>2, <2>1, <3>1 DEF Followed
        <3>2. CASE Has(r, T)
            <4>1. PICK j \in 1 .. n : r[j] \in T
                BY <1>1, <3>2 DEF Has
            <4>2. m + j \in 1 .. m + n /\ i < m + j /\ c[m + j] \in T
                BY <1>1, <1>3, <2>1, <4>1
            <4> QED
                BY <4>2
        <3> QED
            BY <1>9, <3>1, <3>2
    <2>2. CASE i \notin 1 .. m
        <3>1. r[i - m] \in S /\ i - m \in 1 .. n
            BY <1>4, <2>2
        <3>2. PICK j \in 1 .. n : i - m < j /\ r[j] \in T
            BY <1>1, <1>9, <3>1 DEF Followed
        <3>3. m + j \in 1 .. m + n /\ i < m + j /\ c[m + j] \in T
            BY <1>1, <1>3, <3>2
        <3> QED
            BY <3>3
    <2> QED
        BY <2>1, <2>2
<1> QED
    BY <1>1, <1>5, <1>6, <1>7, <1>8, <1>9 DEF c, m, n

LEMMA OneMessage ==
    ASSUME NEW M, NEW m \in M
    PROVE  /\ <<m>> \in Seq(M) /\ Len(<<m>>) = 1
           /\ \A S : (Has(<<m>>, S) <=> m \in S) /\ Once(<<m>>, S)
           /\ \A S, T : (Before(<<m>>, S, T) <=> ~(m \in S /\ m \in T))
                         /\ (Followed(<<m>>, S, T) <=> m \notin S)
<1>1. DOMAIN <<m>> = {1} /\ <<m>>[1] = m /\ <<m>> \in Seq(M) /\ Len(<<m>>) = 1
    OBVIOUS
<1> QED
    BY <1>1 DEF Has, Once, Before, Followed

LEMMA NoMessage ==
    /\ \A M : <<>> \in Seq(M)
    /\ Len(<<>>) = 0
    /\ \A S : ~Has(<<>>, S) /\ Once(<<>>, S)
    /\ \A S, T : Before(<<>>, S, T) /\ Followed(<<>>, S, T)
BY DEF Has, Once, Before, Followed

-----------------------------------------------------------------------------
(* Kinds of messages *)

LEMMA KindFacts ==
    /\ MatchRequest.type = "newMatch" /\ StateRequest.type = "stateRequest"
    /\ RollRequest.type = "rollRequest"
    /\ CheckIn(TRUE).type = "checkIn" /\ CheckIn(TRUE).valid
    /\ CheckIn(FALSE).type = "checkIn" /\ ~CheckIn(FALSE).valid
    /\ \A x : CheckInOf(x).type = "checkIn" /\ CheckInOf(x).seat = x
    /\ \A m \in StateMsgs : m.type = "state" /\ m.state \in States /\ m = StateMsg(m.state)
    /\ \A st : StateMsg(st).type = "state" /\ StateMsg(st).state = st
    /\ \A y, d : DiceMsg(y, d).type = "diceRoll" /\ DiceMsg(y, d).seat = y /\ DiceMsg(y, d).value = d
    /\ \A y : \A m \in DiceMsgs(y) :
          m.type = "diceRoll" /\ m.seat = y /\ m.value \in Die /\ m = DiceMsg(y, m.value)
    /\ \A s : Refused(s).type = "transaction"
    /\ \A s : \A m \in Writes(s) : m.type = "transaction"
BY DEF MatchRequest, StateRequest, RollRequest, CheckIn, CheckInOf, StateMsgs, StateMsg,
       DiceMsg, DiceMsgs, Refused, Transaction, Writes, Moves, BeginTx, EndTx, MoveTx

LEMMA WriteFacts ==
    ASSUME NEW s \in Seat
    PROVE  /\ BeginTx.items = <<Item("BGState", -1, "initialRoll")>>
           /\ EndTx.items = <<Item("BGState", -1, "matchOver")>>
           /\ \A points : MoveTx(s, points).items =
                 <<Item("BGState", -1, "move"), Item("Score", s, points),
                   Item("ActiveSeat", -1, Other(s))>>
           /\ Refused(s).items = <<Item("Score", s, 1), Item("Score", 2, 1)>>
           /\ BeginTx \in Writes(s) /\ EndTx \in Writes(s) /\ Moves(s) \subseteq Writes(s)
           /\ MoveTx(s, 0) \in Moves(s) /\ MoveTx(s, 1) \in Moves(s)
           /\ \A w \in Writes(s) :
                 w = BeginTx \/ w = EndTx \/ w = MoveTx(s, 0) \/ w = MoveTx(s, 1)
BY DEF BeginTx, EndTx, MoveTx, Refused, Transaction, Writes, Moves

LEMMA UpKinds ==
    ASSUME NEW s \in Seat, NEW m \in UpMsg(s)
    PROVE  /\ m.type = "checkIn" =>
                 (m.valid /\ m = CheckIn(TRUE)) \/ (~m.valid /\ m = CheckIn(FALSE))
           /\ m.type = "stateRequest" => m = StateRequest
           /\ m.type = "rollRequest" => m = RollRequest
           /\ m.type = "newMatch" => m = MatchRequest
           /\ m.type = "transaction" => m = Refused(s) \/ m \in Writes(s)
BY KindFacts DEF UpMsg

LEMMA DownKinds ==
    ASSUME NEW s \in Seat, NEW m \in DownMsg(s)
    PROVE  \/ \E x \in Seat : m = CheckInOf(x)
           \/ m \in StateMsgs
           \/ \E y \in Seat : m \in DiceMsgs(y)
           \/ m \in Writes(Other(s))
BY DEF DownMsg, Seat

-----------------------------------------------------------------------------
(* The shared state *)

Stage(st) == st["BGState"][0]
Turn(st) == st["ActiveSeat"][0]

Stages == {"notInit", "initialRoll", "move", "matchOver"}

LEMMA SeatFacts ==
    /\ Seat = {0, 1} /\ Other(0) = 1 /\ Other(1) = 0
    /\ \A s \in Seat : Other(s) \in Seat /\ Other(s) # s /\ Other(Other(s)) = s
    /\ \A s, t \in Seat : t = s \/ t = Other(s)
BY DEF Seat, Other

LEMMA StateFacts ==
    /\ NewState \in States /\ NoView \notin States
    /\ Stage(NewState) = "notInit" /\ Turn(NewState) = 0
    /\ \A st \in States : Stage(st) \in Stages /\ Turn(st) \in Seat
<1>1. NewState \in States
    BY DEF NewState, States, Seat
<1>2. \A st \in States : DOMAIN st = {"BGState", "ActiveSeat", "Score"}
    BY DEF States
<1>3. DOMAIN NoView = {"BGState"}
    BY DEF NoView
<1>4. NoView \notin States
    BY <1>2, <1>3
<1>5. Stage(NewState) = "notInit" /\ Turn(NewState) = 0
    BY DEF NewState, Stage, Turn
<1>6. \A st \in States : Stage(st) \in Stages /\ Turn(st) \in Seat
    BY DEF States, Stage, Stages, Turn
<1> QED
    BY <1>1, <1>4, <1>5, <1>6

LEMMA NothingApplied == \A st \in States : ApplyAll(st, <<>>) = st
<1> SUFFICES ASSUME NEW st \in States PROVE ApplyAll(st, <<>>) = st
    OBVIOUS
<1>1. ApplyAll(st, <<>>) = [tag \in Tags |-> [i \in DOMAIN st[tag] |-> st[tag][i]]]
    BY DEF ApplyAll
<1>2. /\ st = [tag \in Tags |-> st[tag]]
      /\ \A tag \in Tags : st[tag] = [i \in DOMAIN st[tag] |-> st[tag][i]]
    BY DEF States, Tags
<1> QED
    BY <1>1, <1>2

\* What the only item for an entry writes stays; other entries are not touched.
LEMMA EntryApplied ==
    ASSUME NEW st, NEW items, NEW tag \in Tags, NEW i \in DOMAIN st[tag]
    PROVE  /\ (\A n \in DOMAIN items : ~(items[n].tag = tag /\ EntryOf(items[n]) = i))
                => ApplyAll(st, items)[tag][i] = st[tag][i]
           /\ \A n \in DOMAIN items :
                /\ n \in Int /\ items[n].tag = tag /\ EntryOf(items[n]) = i
                /\ \A k \in DOMAIN items : items[k].tag = tag /\ EntryOf(items[k]) = i => k = n
                => ApplyAll(st, items)[tag][i] = items[n].val
<1> DEFINE writes == {n \in DOMAIN items : items[n].tag = tag /\ EntryOf(items[n]) = i}
<1>1. ApplyAll(st, items)[tag][i] =
          IF writes = {} THEN st[tag][i]
          ELSE items[CHOOSE n \in writes : \A k \in writes : k <= n].val
    BY DEF ApplyAll
<1>2. ASSUME NEW n \in DOMAIN items, n \in Int, writes = {n}
      PROVE  ApplyAll(st, items)[tag][i] = items[n].val
    <2>1. (CHOOSE m \in writes : \A k \in writes : k <= m) = n
        <3> HIDE DEF writes
        <3>1. n \in writes /\ \A k \in writes : k <= n
            BY <1>2
        <3>2. (CHOOSE m \in writes : \A k \in writes : k <= m) \in writes
            BY <3>1
        <3> QED
            BY <1>2, <3>2
    <2> QED
        BY <1>1, <1>2, <2>1
<1>3. (\A n \in DOMAIN items : ~(items[n].tag = tag /\ EntryOf(items[n]) = i)) => writes = {}
    OBVIOUS
<1>4. \A n \in DOMAIN items :
          /\ items[n].tag = tag /\ EntryOf(items[n]) = i
          /\ \A k \in DOMAIN items : items[k].tag = tag /\ EntryOf(items[k]) = i => k = n
          => writes = {n}
    OBVIOUS
<1> HIDE DEF writes
<1> QED
    BY <1>1, <1>2, <1>3, <1>4

LEMMA WritesDiffer ==
    ASSUME NEW s \in Seat
    PROVE  /\ BeginTx # EndTx
           /\ \A w \in Moves(s) : w # BeginTx /\ w # EndTx
<1>1. \A a, b, c : Len(<<a>>) = 1 /\ Len(<<a, b, c>>) = 3 /\ <<a>>[1] = a
    OBVIOUS
<1>2. Len(BeginTx.items) = 1 /\ BeginTx.items[1] = Item("BGState", -1, "initialRoll")
    BY <1>1, WriteFacts, Zenon
<1>3. Len(EndTx.items) = 1 /\ EndTx.items[1] = Item("BGState", -1, "matchOver")
    BY <1>1, WriteFacts, Zenon
<1>4. Len(MoveTx(s, 0).items) = 3 /\ Len(MoveTx(s, 1).items) = 3
    BY <1>1, WriteFacts, Zenon
<1>5. Item("BGState", -1, "initialRoll") # Item("BGState", -1, "matchOver")
    BY DEF Item
<1> QED
    BY <1>2, <1>3, <1>4, <1>5 DEF Moves

LEMMA AppliedState ==
    ASSUME NEW st \in States, NEW items,
           ApplyAll(st, items)["BGState"][0] \in Stages,
           ApplyAll(st, items)["ActiveSeat"][0] \in Seat,
           ApplyAll(st, items)["Score"][0] \in -1 .. 1,
           ApplyAll(st, items)["Score"][1] \in -1 .. 1
    PROVE  ApplyAll(st, items) \in States
<1> DEFINE new == ApplyAll(st, items)
<1>1. /\ DOMAIN st["BGState"] = {0} /\ DOMAIN st["ActiveSeat"] = {0}
      /\ DOMAIN st["Score"] = {0, 1}
    BY DEF States
<1>2. /\ new = [tag \in Tags |-> new[tag]]
      /\ \A tag \in Tags : new[tag] = [i \in DOMAIN st[tag] |-> new[tag][i]]
    BY DEF ApplyAll
<1> HIDE DEF new
<1>3. /\ new["BGState"] \in [{0} -> Stages]
      /\ new["ActiveSeat"] \in [{0} -> Seat]
      /\ new["Score"] \in [{0, 1} -> -1 .. 1]
    BY <1>1, <1>2 DEF Tags, new
<1>4. new = [BGState |-> new["BGState"], ActiveSeat |-> new["ActiveSeat"], Score |-> new["Score"]]
    BY <1>2 DEF Tags
<1> QED
    BY <1>3, <1>4 DEF States, Stages, new

LEMMA Applied ==
    ASSUME NEW s \in Seat, NEW st \in States, NEW w \in Writes(s)
    PROVE  /\ ApplyAll(st, w.items) \in States
           /\ w = BeginTx => /\ Stage(ApplyAll(st, w.items)) = "initialRoll"
                             /\ Turn(ApplyAll(st, w.items)) = Turn(st)
           /\ w \in Moves(s) => /\ Stage(ApplyAll(st, w.items)) = "move"
                                /\ Turn(ApplyAll(st, w.items)) = Other(s)
           /\ w = EndTx => /\ Stage(ApplyAll(st, w.items)) = "matchOver"
                           /\ Turn(ApplyAll(st, w.items)) = Turn(st)
<1> DEFINE items == w.items
           new == ApplyAll(st, items)
<1>1. /\ st["BGState"][0] \in Stages /\ st["ActiveSeat"][0] \in Seat
      /\ st["Score"][0] \in -1 .. 1 /\ st["Score"][1] \in -1 .. 1
      /\ 0 \in DOMAIN st["BGState"] /\ 0 \in DOMAIN st["ActiveSeat"]
      /\ 0 \in DOMAIN st["Score"] /\ 1 \in DOMAIN st["Score"]
      /\ "BGState" \in Tags /\ "ActiveSeat" \in Tags /\ "Score" \in Tags
    BY DEF States, Stages, Tags
<1>2. ASSUME NEW name \in {"initialRoll", "matchOver"}, items = <<Item("BGState", -1, name)>>
      PROVE  new \in States /\ Stage(new) = name /\ Turn(new) = Turn(st)
    <2>1. /\ DOMAIN items = {1} /\ items[1].tag = "BGState" /\ EntryOf(items[1]) = 0
          /\ items[1].val = name
        BY <1>2 DEF Item, EntryOf
    <2> HIDE DEF items
    <2>2. new["BGState"][0] = name
        BY <1>1, <2>1, EntryApplied
    <2>3. new["ActiveSeat"][0] = st["ActiveSeat"][0]
        BY <1>1, <2>1, EntryApplied
    <2>4. new["Score"][0] = st["Score"][0] /\ new["Score"][1] = st["Score"][1]
        BY <1>1, <2>1, EntryApplied
    <2>5. name \in Stages
        BY DEF Stages
    <2> QED
        BY <1>1, <2>2, <2>3, <2>4, <2>5, AppliedState DEF Stage, Turn
<1>3. ASSUME NEW points \in {0, 1},
             items = <<Item("BGState", -1, "move"), Item("Score", s, points),
                       Item("ActiveSeat", -1, Other(s))>>
      PROVE  new \in States /\ Stage(new) = "move" /\ Turn(new) = Other(s)
    <2>1. /\ DOMAIN items = {1, 2, 3}
          /\ items[1].tag = "BGState" /\ EntryOf(items[1]) = 0 /\ items[1].val = "move"
          /\ items[2].tag = "Score" /\ EntryOf(items[2]) = s /\ items[2].val = points
          /\ items[3].tag = "ActiveSeat" /\ EntryOf(items[3]) = 0 /\ items[3].val = Other(s)
        BY <1>3, SeatFacts DEF Item, EntryOf
    <2> HIDE DEF items
    <2>2. new["BGState"][0] = "move"
        BY <1>1, <2>1, EntryApplied
    <2>3. new["ActiveSeat"][0] = Other(s)
        BY <1>1, <2>1, EntryApplied
    <2>4. new["Score"][0] \in -1 .. 1
        <3>1. CASE s = 0
            <4>1. new["Score"][0] = points
                BY <1>1, <2>1, <3>1, EntryApplied
            <4> QED
                BY <4>1
        <3>2. CASE s = 1
            <4>1. new["Score"][0] = st["Score"][0]
                BY <1>1, <2>1, <3>2, EntryApplied
            <4> QED
                BY <1>1, <4>1
        <3> QED
            BY <3>1, <3>2, SeatFacts
    <2>5. new["Score"][1] \in -1 .. 1
        <3>1. CASE s = 1
            <4>1. new["Score"][1] = points
                BY <1>1, <2>1, <3>1, EntryApplied
            <4> QED
                BY <4>1
        <3>2. CASE s = 0
            <4>1. new["Score"][1] = st["Score"][1]
                BY <1>1, <2>1, <3>2, EntryApplied
            <4> QED
                BY <1>1, <4>1
        <3> QED
            BY <3>1, <3>2, SeatFacts
    <2>6. "move" \in Stages
        BY DEF Stages
    <2> QED
        BY <2>2, <2>3, <2>4, <2>5, <2>6, SeatFacts, AppliedState DEF Stage, Turn
<1>4. CASE w = BeginTx
    <2>1. items = <<Item("BGState", -1, "initialRoll")>>
        BY <1>4, WriteFacts
    <2>2. new \in States /\ Stage(new) = "initialRoll" /\ Turn(new) = Turn(st)
        BY <1>2, <2>1
    <2>3. w # EndTx /\ w \notin Moves(s)
        BY <1>4, WritesDiffer
    <2> QED
        BY <2>2, <2>3
<1>5. CASE w = EndTx
    <2>1. items = <<Item("BGState", -1, "matchOver")>>
        BY <1>5, WriteFacts
    <2>2. new \in States /\ Stage(new) = "matchOver" /\ Turn(new) = Turn(st)
        BY <1>2, <2>1
    <2>3. w # BeginTx /\ w \notin Moves(s)
        BY <1>5, WritesDiffer
    <2> QED
        BY <2>2, <2>3
<1>6. ASSUME NEW points \in {0, 1}, w = MoveTx(s, points)
      PROVE  /\ new \in States /\ Stage(new) = "move" /\ Turn(new) = Other(s)
             /\ w # BeginTx /\ w # EndTx
    <2>1. items = <<Item("BGState", -1, "move"), Item("Score", s, points),
                    Item("ActiveSeat", -1, Other(s))>>
        BY <1>6, WriteFacts
    <2>2. new \in States /\ Stage(new) = "move" /\ Turn(new) = Other(s)
        BY <1>3, <2>1
    <2>3. w # BeginTx /\ w # EndTx
        BY <1>6, WritesDiffer DEF Moves
    <2> QED
        BY <2>2, <2>3
<1>7. w = BeginTx \/ w = EndTx \/ w = MoveTx(s, 0) \/ w = MoveTx(s, 1)
    BY WriteFacts
<1> HIDE DEF new, items
<1>8. w = MoveTx(s, 0) \/ w = MoveTx(s, 1) =>
          /\ new \in States /\ Stage(new) = "move" /\ Turn(new) = Other(s)
          /\ w # BeginTx /\ w # EndTx
    BY <1>6
<1>9. /\ new \in States
      /\ w = BeginTx => Stage(new) = "initialRoll" /\ Turn(new) = Turn(st)
      /\ w \in Moves(s) => Stage(new) = "move" /\ Turn(new) = Other(s)
      /\ w = EndTx => Stage(new) = "matchOver" /\ Turn(new) = Turn(st)
    BY <1>4, <1>5, <1>7, <1>8 DEF new, items, Moves
<1> QED
    BY <1>9 DEF new, items

\* The server takes what it should.
LEMMA ValidWrites ==
    ASSUME NEW s \in Seat
    PROVE  /\ \A w \in Writes(s) : \A i \in DOMAIN w.items : IsValid(w.items[i])
           /\ ~(\A i \in DOMAIN Refused(s).items : IsValid(Refused(s).items[i]))
<1>1. ASSUME NEW w \in Writes(s) PROVE \A i \in DOMAIN w.items : IsValid(w.items[i])
    <2>1. \A name : IsValid(Item("BGState", -1, name))
        BY DEF IsValid, Item, Tags, Counts
    <2>2. \A points : IsValid(Item("Score", s, points))
        BY SeatFacts DEF IsValid, Item, Tags, Counts
    <2>3. IsValid(Item("ActiveSeat", -1, Other(s)))
        BY DEF IsValid, Item, Tags, Counts
    <2>4. w = BeginTx \/ w = EndTx => \A i \in DOMAIN w.items : IsValid(w.items[i])
        <3>1. \A a : DOMAIN <<a>> = {1} /\ <<a>>[1] = a
            OBVIOUS
        <3> QED
            BY <2>1, <3>1, WriteFacts
    <2>5. w = MoveTx(s, 0) \/ w = MoveTx(s, 1) => \A i \in DOMAIN w.items : IsValid(w.items[i])
        <3>1. \A a, b, c : /\ DOMAIN <<a, b, c>> = {1, 2, 3} /\ <<a, b, c>>[1] = a
                           /\ <<a, b, c>>[2] = b /\ <<a, b, c>>[3] = c
            OBVIOUS
        <3> QED
            BY <2>1, <2>2, <2>3, <3>1, WriteFacts
    <2> QED
        BY <2>4, <2>5, WriteFacts
<1>2. ~(\A i \in DOMAIN Refused(s).items : IsValid(Refused(s).items[i]))
    <2>1. 2 \in DOMAIN Refused(s).items /\ Refused(s).items[2] = Item("Score", 2, 1)
        BY WriteFacts
    <2>2. ~IsValid(Item("Score", 2, 1))
        BY DEF IsValid, Item, Tags, Counts
    <2> QED
        BY <2>1, <2>2
<1> QED
    BY <1>1, <1>2

-----------------------------------------------------------------------------
(* Types *)

UpType ==
    /\ DOMAIN up = Seat
    /\ \A s \in Seat : up[s] \in Seq(UpMsg(s)) /\ Len(up[s]) <= MaxQueue

DownType ==
    /\ DOMAIN down = Seat
    /\ \A s \in Seat : down[s] \in Seq(DownMsg(s))

ServerType ==
    /\ seated = [s \in Seat |-> phase[s] # "gone"]
    /\ state \in States
    /\ checkedIn \in [Seat -> BOOLEAN]
    /\ delivered \in [Seat -> [Seat -> BOOLEAN]]
    /\ initialRoll \in Rolls

ClientType ==
    /\ phase \in [Seat -> {"out", "join", "play", "gone"}]
    /\ got \in [Seat -> SUBSET Seat]
    /\ view \in [Seat -> States \cup {NoView}]
    /\ \A s \in Seat : phase[s] = "play" => view[s] \in States
    /\ dice \in [Seat -> Rolls]
    /\ again \in BOOLEAN

TypeInv == UpType /\ DownType /\ ServerType /\ ClientType

LEMMA MessagesTyped ==
    ASSUME NEW s \in Seat
    PROVE  /\ CheckIn(TRUE) \in UpMsg(s) /\ CheckIn(FALSE) \in UpMsg(s)
           /\ StateRequest \in UpMsg(s) /\ RollRequest \in UpMsg(s) /\ MatchRequest \in UpMsg(s)
           /\ Refused(s) \in UpMsg(s) /\ Writes(s) \subseteq UpMsg(s)
           /\ CheckInOf(0) \in DownMsg(s) /\ CheckInOf(1) \in DownMsg(s)
           /\ \A st \in States : StateMsg(st) \in DownMsg(s)
           /\ \A y \in Seat, d \in Die : DiceMsg(y, d) \in DownMsg(s)
           /\ Writes(Other(s)) \subseteq DownMsg(s)
BY DEF UpMsg, DownMsg, StateMsgs, DiceMsgs, Seat

\* The server takes a message.
LEMMA ServerTakes ==
    ASSUME UpType, NEW s \in Seat, NEW type, Takes(s, type)
    PROVE  /\ up[s] # <<>> /\ Head(up[s]) \in UpMsg(s) /\ Head(up[s]).type = type
           /\ up'[s] = Tail(up[s]) /\ up'[Other(s)] = up[Other(s)]
           /\ up[s] \in Seq(UpMsg(s)) /\ UpType'
<1>1. /\ up[s] # <<>> /\ Head(up[s]).type = type
      /\ up' = [up EXCEPT ![s] = Tail(up[s])]
    BY DEF Takes
<1>2. up[s] \in Seq(UpMsg(s)) /\ Len(up[s]) <= MaxQueue
    BY DEF UpType
<1>3. /\ Head(up[s]) \in UpMsg(s) /\ Tail(up[s]) \in Seq(UpMsg(s))
      /\ Len(up[s]) \in Nat /\ Len(Tail(up[s])) = Len(up[s]) - 1
    BY <1>1, <1>2, HeadTaken
<1>4. up'[s] = Tail(up[s]) /\ (\A t \in Seat : t # s => up'[t] = up[t]) /\ DOMAIN up' = Seat
    BY <1>1 DEF UpType
<1>5. Len(Tail(up[s])) <= MaxQueue
    BY <1>2, <1>3, QueueAssumption
<1>6. UpType'
    BY <1>3, <1>4, <1>5 DEF UpType
<1> QED
    BY <1>1, <1>2, <1>3, <1>4, <1>6, SeatFacts

\* A client speaks.
LEMMA ClientSays ==
    ASSUME UpType, NEW s \in Seat, NEW msgs \in Seq(UpMsg(s)), Says(s, msgs)
    PROVE  /\ up'[s] = up[s] \o msgs /\ up'[Other(s)] = up[Other(s)]
           /\ up[s] \in Seq(UpMsg(s)) /\ UpType'
<1>1. /\ Len(up[s]) + Len(msgs) <= MaxQueue
      /\ up' = [up EXCEPT ![s] = up[s] \o msgs]
    BY DEF Says
<1>2. up[s] \in Seq(UpMsg(s))
    BY DEF UpType
<1>3. up[s] \o msgs \in Seq(UpMsg(s)) /\ Len(up[s] \o msgs) = Len(up[s]) + Len(msgs)
    BY <1>2, Appended
<1>4. up'[s] = up[s] \o msgs /\ (\A t \in Seat : t # s => up'[t] = up[t]) /\ DOMAIN up' = Seat
    BY <1>1 DEF UpType
<1>5. UpType'
    BY <1>1, <1>3, <1>4 DEF UpType
<1> QED
    BY <1>2, <1>4, <1>5, SeatFacts

\* The server speaks.
LEMMA ServerSends ==
    ASSUME DownType, NEW msgs, Send(msgs), \A x \in Seat : msgs[x] \in Seq(DownMsg(x))
    PROVE  /\ \A x \in Seat : down'[x] = IF seated[x] THEN down[x] \o msgs[x] ELSE down[x]
           /\ DownType'
<1>1. down' = [x \in Seat |-> IF seated[x] THEN down[x] \o msgs[x] ELSE down[x]]
    BY DEF Send
<1>2. \A x \in Seat : down[x] \o msgs[x] \in Seq(DownMsg(x))
    BY Appended DEF DownType
<1>3. DownType'
    BY <1>1, <1>2 DEF DownType
<1> QED
    BY <1>1, <1>3

\* A client listens.
LEMMA ClientHears ==
    ASSUME DownType, NEW s \in Seat, down[s] # <<>>, down' = [down EXCEPT ![s] = Tail(@)]
    PROVE  /\ Head(down[s]) \in DownMsg(s) /\ down[s] \in Seq(DownMsg(s))
           /\ down'[s] = Tail(down[s]) /\ down'[Other(s)] = down[Other(s)]
           /\ DownType'
<1>1. down[s] \in Seq(DownMsg(s))
    BY DEF DownType
<1>2. Head(down[s]) \in DownMsg(s) /\ Tail(down[s]) \in Seq(DownMsg(s))
    BY <1>1, HeadTaken
<1>3. down'[s] = Tail(down[s]) /\ (\A t \in Seat : t # s => down'[t] = down[t]) /\ DOMAIN down' = Seat
    BY DEF DownType
<1>4. DownType'
    BY <1>2, <1>3 DEF DownType
<1> QED
    BY <1>1, <1>2, <1>3, <1>4, SeatFacts

-----------------------------------------------------------------------------
(* What each step does, and that it keeps the types *)

LEMMA CheckInTaken ==
    ASSUME TypeInv, NEW s \in Seat, HandleCheckIn(s)
    PROVE  /\ TypeInv'
           /\ up[s] # <<>> /\ Head(up[s]) = CheckIn(TRUE)
           /\ up'[s] = Tail(up[s]) /\ up'[Other(s)] = up[Other(s)]
           /\ UNCHANGED <<seated, state, initialRoll, clientVars>>
           /\ checkedIn' = [checkedIn EXCEPT ![s] = TRUE]
           /\ delivered'[s][Other(s)] = (delivered[s][Other(s)] \/ checkedIn[Other(s)])
           /\ delivered'[Other(s)][s] = (delivered[Other(s)][s] \/ seated[Other(s)])
           /\ LET learn == checkedIn[Other(s)] /\ ~delivered[s][Other(s)]
                  tell  == seated[Other(s)] /\ ~delivered[Other(s)][s]
              IN /\ seated[s] => down'[s] = down[s] \o
                       (<<CheckInOf(s)>> \o If(learn, CheckInOf(Other(s))))
                 /\ seated[Other(s)] => down'[Other(s)] = down[Other(s)] \o If(tell, CheckInOf(s))
<1> DEFINE t == Other(s)
           learn == checkedIn[t] /\ ~delivered[s][t]
           tell  == seated[t] /\ ~delivered[t][s]
           msgs == [x \in Seat |->
                        IF x = s THEN <<CheckInOf(s)>> \o If(learn, CheckInOf(t))
                        ELSE If(tell, CheckInOf(s))]
<1>1. /\ Takes(s, "checkIn") /\ Head(up[s]).valid
      /\ checkedIn' = [checkedIn EXCEPT ![s] = TRUE]
      /\ delivered' = [delivered EXCEPT ![s][t] = @ \/ learn, ![t][s] = @ \/ tell]
      /\ Send(msgs)
      /\ UNCHANGED <<seated, state, initialRoll, clientVars>>
    BY DEF HandleCheckIn
<1>2. t \in Seat /\ t # s /\ \A x \in Seat : x = s \/ x = t
    BY SeatFacts
<1>3. /\ up[s] # <<>> /\ Head(up[s]) \in UpMsg(s) /\ Head(up[s]).type = "checkIn"
      /\ up'[s] = Tail(up[s]) /\ up'[t] = up[t] /\ UpType'
    BY <1>1, ServerTakes DEF TypeInv
<1>4. Head(up[s]) = CheckIn(TRUE)
    BY <1>1, <1>3, UpKinds
<1>5. \A x \in Seat : msgs[x] \in Seq(DownMsg(x))
    <2>1. \A x \in Seat : CheckInOf(s) \in DownMsg(x) /\ CheckInOf(t) \in DownMsg(x)
        BY <1>2, MessagesTyped, SeatFacts
    <2>2. \A x \in Seat : \A m \in DownMsg(x) : <<m>> \in Seq(DownMsg(x)) /\ <<>> \in Seq(DownMsg(x))
        OBVIOUS
    <2>3. ASSUME NEW x \in Seat, NEW m \in DownMsg(x)
          PROVE  If(learn, m) \in Seq(DownMsg(x)) /\ If(tell, m) \in Seq(DownMsg(x))
        <3> HIDE DEF learn, tell
        <3> QED
            BY <2>2 DEF If
    <2>4. If(learn, CheckInOf(t)) \in Seq(DownMsg(s)) /\ If(tell, CheckInOf(s)) \in Seq(DownMsg(t))
        BY <1>2, <2>1, <2>3
    <2>5. <<CheckInOf(s)>> \o If(learn, CheckInOf(t)) \in Seq(DownMsg(s))
        <3> DEFINE rest == If(learn, CheckInOf(t))
        <3> HIDE DEF rest
        <3>1. <<CheckInOf(s)>> \in Seq(DownMsg(s)) /\ rest \in Seq(DownMsg(s))
            BY <2>1, <2>2, <2>4 DEF rest
        <3> QED
            BY <3>1, Appended DEF rest
    <2>6. /\ msgs[s] = <<CheckInOf(s)>> \o If(learn, CheckInOf(t))
          /\ msgs[t] = If(tell, CheckInOf(s))
        BY <1>2
    <2> HIDE DEF msgs, learn, tell
    <2> QED
        BY <1>2, <2>4, <2>5, <2>6
<1>6. /\ \A x \in Seat : down'[x] = IF seated[x] THEN down[x] \o msgs[x] ELSE down[x]
      /\ DownType'
    BY <1>1, <1>5, ServerSends DEF TypeInv
<1>7. /\ msgs[s] = <<CheckInOf(s)>> \o If(learn, CheckInOf(t))
      /\ msgs[t] = If(tell, CheckInOf(s))
    BY <1>2
<1>8. /\ delivered' \in [Seat -> [Seat -> BOOLEAN]]
      /\ delivered'[s][t] = (delivered[s][t] \/ checkedIn[t])
      /\ delivered'[t][s] = (delivered[t][s] \/ seated[t])
    <2>1. delivered \in [Seat -> [Seat -> BOOLEAN]] /\ checkedIn \in [Seat -> BOOLEAN]
        BY DEF TypeInv, ServerType
    <2>2. /\ delivered' \in [Seat -> [Seat -> BOOLEAN]]
          /\ delivered'[s][t] = (delivered[s][t] \/ learn)
          /\ delivered'[t][s] = (delivered[t][s] \/ tell)
        <3> HIDE DEF learn, tell
        <3> QED
            BY <1>1, <1>2, <2>1
    <2> QED
        BY <2>1, <2>2
<1>9. TypeInv'
    <2>1. ServerType'
        BY <1>1, <1>8 DEF TypeInv, ServerType, clientVars
    <2>2. ClientType'
        BY <1>1 DEF TypeInv, ClientType, clientVars
    <2> QED
        BY <1>3, <1>6, <2>1, <2>2 DEF TypeInv
<1> HIDE DEF msgs
<1> QED
    BY <1>1, <1>2, <1>3, <1>4, <1>6, <1>7, <1>8, <1>9

LEMMA CheckInRefused ==
    ASSUME TypeInv, NEW s \in Seat, RefuseCheckIn(s)
    PROVE  /\ TypeInv'
           /\ up[s] # <<>> /\ Head(up[s]) = CheckIn(FALSE)
           /\ up'[s] = Tail(up[s]) /\ up'[Other(s)] = up[Other(s)]
           /\ UNCHANGED <<seated, serverVars, down, clientVars>>
<1>1. /\ Takes(s, "checkIn") /\ ~Head(up[s]).valid
      /\ UNCHANGED <<seated, serverVars, down, clientVars>>
    BY DEF RefuseCheckIn
<1>2. /\ up[s] # <<>> /\ Head(up[s]) \in UpMsg(s) /\ Head(up[s]).type = "checkIn"
      /\ up'[s] = Tail(up[s]) /\ up'[Other(s)] = up[Other(s)] /\ UpType'
    BY <1>1, ServerTakes DEF TypeInv
<1>3. Head(up[s]) = CheckIn(FALSE)
    BY <1>1, <1>2, UpKinds
<1>4. TypeInv'
    BY <1>1, <1>2 DEF TypeInv, DownType, ServerType, ClientType, serverVars, clientVars
<1> QED
    BY <1>1, <1>2, <1>3, <1>4

LEMMA StateSent ==
    ASSUME TypeInv, NEW s \in Seat, HandleGameStateRequest(s)
    PROVE  /\ TypeInv'
           /\ up[s] # <<>> /\ Head(up[s]) = StateRequest
           /\ up'[s] = Tail(up[s]) /\ up'[Other(s)] = up[Other(s)]
           /\ UNCHANGED <<seated, serverVars, clientVars>>
           /\ down'[Other(s)] = down[Other(s)]
           /\ seated[s] => down'[s] = down[s] \o <<StateMsg(state)>>
<1> DEFINE t == Other(s)
           msgs == [x \in Seat |-> If(x = s, StateMsg(state))]
<1>1. Takes(s, "stateRequest") /\ Send(msgs) /\ UNCHANGED <<seated, serverVars, clientVars>>
    BY DEF HandleGameStateRequest, StateMsg
<1>2. t \in Seat /\ t # s /\ \A x \in Seat : x = s \/ x = t
    BY SeatFacts
<1>3. /\ up[s] # <<>> /\ Head(up[s]) \in UpMsg(s) /\ Head(up[s]).type = "stateRequest"
      /\ up'[s] = Tail(up[s]) /\ up'[t] = up[t] /\ UpType'
    BY <1>1, ServerTakes DEF TypeInv
<1>4. Head(up[s]) = StateRequest
    BY <1>3, UpKinds
<1>5. msgs[s] = <<StateMsg(state)>> /\ msgs[t] = <<>>
    BY <1>2 DEF If
<1>6. \A x \in Seat : msgs[x] \in Seq(DownMsg(x))
    <2>1. StateMsg(state) \in DownMsg(s)
        BY MessagesTyped DEF TypeInv, ServerType
    <2>2. <<StateMsg(state)>> \in Seq(DownMsg(s)) /\ <<>> \in Seq(DownMsg(t))
        BY <2>1
    <2> HIDE DEF msgs
    <2> QED
        BY <1>2, <1>5, <2>2
<1> HIDE DEF msgs
<1>7. /\ \A x \in Seat : down'[x] = IF seated[x] THEN down[x] \o msgs[x] ELSE down[x]
      /\ DownType'
    BY <1>1, <1>6, ServerSends DEF TypeInv
<1>8. down[t] \o <<>> = down[t]
    <2>1. down[t] \in Seq(DownMsg(t))
        BY <1>2 DEF TypeInv, DownType
    <2> QED
        BY <2>1
<1>9. TypeInv'
    BY <1>1, <1>3, <1>7 DEF TypeInv, ServerType, ClientType, serverVars, clientVars
<1> QED
    BY <1>1, <1>2, <1>3, <1>4, <1>5, <1>7, <1>8, <1>9

LEMMA TransactionTaken ==
    ASSUME TypeInv, NEW s \in Seat, HandleTransaction(s)
    PROVE  /\ TypeInv'
           /\ up[s] # <<>> /\ up'[s] = Tail(up[s]) /\ up'[Other(s)] = up[Other(s)]
           /\ UNCHANGED <<seated, checkedIn, delivered, initialRoll, clientVars>>
           /\ \/ Head(up[s]) = Refused(s) /\ UNCHANGED <<state, down>>
              \/ /\ Head(up[s]) \in Writes(s)
                 /\ state' = ApplyAll(state, Head(up[s]).items)
                 /\ down'[s] = down[s]
                 /\ seated[Other(s)] => down'[Other(s)] = down[Other(s)] \o <<Head(up[s])>>
<1> DEFINE t == Other(s)
           tx == Head(up[s])
           good == \A i \in DOMAIN tx.items : IsValid(tx.items[i])
           msgs == [x \in Seat |-> If(x # s, tx)]
<1>1. /\ Takes(s, "transaction")
      /\ IF good THEN state' = ApplyAll(state, tx.items) /\ Send(msgs) ELSE UNCHANGED <<state, down>>
      /\ UNCHANGED <<seated, checkedIn, delivered, initialRoll, clientVars>>
    BY DEF HandleTransaction
<1>2. t \in Seat /\ t # s /\ s = Other(t) /\ \A x \in Seat : x = s \/ x = t
    BY SeatFacts
<1>3. /\ up[s] # <<>> /\ tx \in UpMsg(s) /\ tx.type = "transaction"
      /\ up'[s] = Tail(up[s]) /\ up'[t] = up[t] /\ UpType'
    BY <1>1, ServerTakes DEF TypeInv
<1>4. tx = Refused(s) \/ tx \in Writes(s)
    BY <1>3, UpKinds
<1>5. /\ state \in States /\ DownType
      /\ ClientType' /\ (state' \in States => ServerType')
    BY <1>1 DEF TypeInv, ServerType, ClientType, clientVars
<1>6. CASE tx = Refused(s)
    <2>1. ~good
        BY <1>6, ValidWrites
    <2>2. UNCHANGED <<state, down>>
        BY <1>1, <2>1
    <2> QED
        BY <1>1, <1>3, <1>5, <1>6, <2>2 DEF TypeInv, DownType
<1>7. CASE tx \in Writes(s)
    <2>1. good
        BY <1>7, ValidWrites
    <2>2. state' = ApplyAll(state, tx.items) /\ Send(msgs)
        BY <1>1, <2>1
    <2>3. msgs[s] = <<>> /\ msgs[t] = <<tx>>
        BY <1>2 DEF If
    <2>4. tx \in DownMsg(t)
        BY <1>2, <1>7, MessagesTyped
    <2>5. \A x \in Seat : msgs[x] \in Seq(DownMsg(x))
        <3>1. <<tx>> \in Seq(DownMsg(t)) /\ <<>> \in Seq(DownMsg(s))
            BY <2>4
        <3> HIDE DEF msgs, tx
        <3> QED
            BY <1>2, <2>3, <3>1
    <2>6. /\ \A x \in Seat : down'[x] = IF seated[x] THEN down[x] \o msgs[x] ELSE down[x]
          /\ DownType'
        <3> HIDE DEF msgs
        <3> QED
            BY <1>5, <2>2, <2>5, ServerSends
    <2>7. down'[s] = down[s] /\ (seated[t] => down'[t] = down[t] \o <<tx>>)
        <3>1. down[s] \in Seq(DownMsg(s))
            BY <1>5 DEF DownType
        <3>2. down[s] \o <<>> = down[s]
            BY <3>1
        <3> HIDE DEF msgs, tx
        <3> QED
            BY <1>2, <2>3, <2>6, <3>2
    <2>8. state' = ApplyAll(state, tx.items) /\ state' \in States
        BY <1>5, <1>7, <2>2, Applied
    <2>9. TypeInv'
        BY <1>3, <1>5, <1>7, <2>6, <2>8 DEF TypeInv
    <2> HIDE DEF good, msgs
    <2> QED
        BY <1>1, <1>2, <1>3, <1>7, <2>7, <2>8, <2>9
<1> QED
    BY <1>4, <1>6, <1>7

LEMMA RollTaken ==
    ASSUME TypeInv, NEW s \in Seat, HandleRollRequest(s)
    PROVE  /\ TypeInv'
           /\ up[s] # <<>> /\ Head(up[s]) = RollRequest
           /\ up'[s] = Tail(up[s]) /\ up'[Other(s)] = up[Other(s)]
           /\ UNCHANGED <<seated, state, checkedIn, delivered, clientVars>>
           /\ \E d \in Die :
                /\ initialRoll' = IF Stage(state) = "initialRoll"
                                  THEN [initialRoll EXCEPT ![s] = d] ELSE initialRoll
                /\ \A x \in Seat : seated[x] => down'[x] = down[x] \o <<DiceMsg(s, d)>>
<1>1. PICK d \in Die :
        /\ initialRoll' = IF state["BGState"][0] = "initialRoll"
                          THEN [initialRoll EXCEPT ![s] = d] ELSE initialRoll
        /\ Send([x \in Seat |-> <<DiceMsg(s, d)>>])
    BY DEF HandleRollRequest, DiceMsg
<1>2. Takes(s, "rollRequest") /\ UNCHANGED <<seated, state, checkedIn, delivered, clientVars>>
    BY DEF HandleRollRequest
<1>3. /\ up[s] # <<>> /\ Head(up[s]) \in UpMsg(s) /\ Head(up[s]).type = "rollRequest"
      /\ up'[s] = Tail(up[s]) /\ up'[Other(s)] = up[Other(s)] /\ UpType'
    BY <1>2, ServerTakes DEF TypeInv
<1>4. Head(up[s]) = RollRequest
    BY <1>3, UpKinds
<1> DEFINE msgs == [x \in Seat |-> <<DiceMsg(s, d)>>]
<1>5. \A x \in Seat : msgs[x] \in Seq(DownMsg(x)) /\ msgs[x] = <<DiceMsg(s, d)>>
    <2>1. \A x \in Seat : DiceMsg(s, d) \in DownMsg(x)
        BY MessagesTyped
    <2> QED
        BY <2>1
<1>6. /\ \A x \in Seat : down'[x] = IF seated[x] THEN down[x] \o msgs[x] ELSE down[x]
      /\ DownType'
    <2>1. Send(msgs)
        BY <1>1
    <2> HIDE DEF msgs
    <2> QED
        BY <1>5, <2>1, ServerSends DEF TypeInv
<1>7. initialRoll' \in Rolls
    BY <1>1 DEF TypeInv, ServerType, Rolls
<1>8. TypeInv'
    BY <1>2, <1>3, <1>6, <1>7 DEF TypeInv, ServerType, ClientType, clientVars
<1> HIDE DEF msgs
<1>9. \A x \in Seat : seated[x] => down'[x] = down[x] \o <<DiceMsg(s, d)>>
    BY <1>5, <1>6
<1> QED
    BY <1>1, <1>2, <1>3, <1>4, <1>8, <1>9 DEF Stage

LEMMA MatchRequestTaken ==
    ASSUME TypeInv, NEW s \in Seat, HandleNewMatch(s)
    PROVE  /\ TypeInv'
           /\ up[s] # <<>> /\ Head(up[s]) = MatchRequest
           /\ up'[s] = Tail(up[s]) /\ up'[Other(s)] = up[Other(s)]
           /\ state' = NewState /\ initialRoll' = NoRoll
           /\ \A x, y \in Seat : delivered'[x][y] = FALSE
           /\ UNCHANGED <<seated, checkedIn, down, clientVars>>
<1>1. /\ Takes(s, "newMatch")
      /\ state' = NewState /\ initialRoll' = NoRoll /\ delivered' = Undelivered
      /\ UNCHANGED <<seated, checkedIn, down, clientVars>>
    BY DEF HandleNewMatch
<1>2. /\ up[s] # <<>> /\ Head(up[s]) \in UpMsg(s) /\ Head(up[s]).type = "newMatch"
      /\ up'[s] = Tail(up[s]) /\ up'[Other(s)] = up[Other(s)] /\ UpType'
    BY <1>1, ServerTakes DEF TypeInv
<1>3. Head(up[s]) = MatchRequest
    BY <1>2, UpKinds
<1>4. /\ NoRoll \in Rolls /\ Undelivered \in [Seat -> [Seat -> BOOLEAN]]
      /\ \A x, y \in Seat : Undelivered[x][y] = FALSE
    BY DEF NoRoll, Rolls, Undelivered, NoneOf
<1>5. TypeInv'
    BY <1>1, <1>2, <1>4, StateFacts DEF TypeInv, DownType, ServerType, ClientType, clientVars
<1> QED
    BY <1>1, <1>2, <1>3, <1>4, <1>5

LEMMA IntroductionTyped ==
    ASSUME NEW s \in Seat
    PROVE  /\ Introduction \in Seq(UpMsg(s))
           /\ Introduction = <<CheckIn(TRUE), StateRequest>>
           /\ <<MatchRequest>> \in Seq(UpMsg(s))
           /\ <<MatchRequest>> \o Introduction \in Seq(UpMsg(s))
<1>1. Introduction = <<CheckIn(TRUE), StateRequest>>
    BY DEF Introduction, StateRequest
<1>2. \A M : \A a, b, c \in M : <<b, c>> \in Seq(M) /\ <<a>> \in Seq(M)
    OBVIOUS
<1>3. /\ MatchRequest \in UpMsg(s) /\ CheckIn(TRUE) \in UpMsg(s)
      /\ StateRequest \in UpMsg(s)
    BY MessagesTyped
<1>4. Introduction \in Seq(UpMsg(s)) /\ <<MatchRequest>> \in Seq(UpMsg(s))
    BY <1>1, <1>2, <1>3, Zenon
<1>5. <<MatchRequest>> \o Introduction \in Seq(UpMsg(s))
    BY <1>4, Appended
<1> QED
    BY <1>1, <1>4, <1>5

LEMMA Joined ==
    ASSUME TypeInv, NEW s \in Seat, Join(s)
    PROVE  /\ TypeInv'
           /\ phase[s] = "out" /\ phase' = [phase EXCEPT ![s] = "join"]
           /\ up'[s] = up[s] \o Introduction /\ up'[Other(s)] = up[Other(s)]
           /\ UNCHANGED <<seated, serverVars, down, got, view, dice, again>>
<1>1. /\ phase[s] = "out" /\ Says(s, Introduction) /\ phase' = [phase EXCEPT ![s] = "join"]
      /\ UNCHANGED <<seated, serverVars, down, got, view, dice, again>>
    BY DEF Join
<1>2. /\ up'[s] = up[s] \o Introduction /\ up'[Other(s)] = up[Other(s)] /\ UpType'
    BY <1>1, IntroductionTyped, ClientSays DEF TypeInv
<1>3. ServerType' /\ ClientType' /\ DownType'
    BY <1>1 DEF TypeInv, DownType, ServerType, ClientType, serverVars
<1> QED
    BY <1>1, <1>2, <1>3 DEF TypeInv

LEMMA CheckedInAgain ==
    ASSUME TypeInv, NEW s \in Seat, CheckInAgain(s)
    PROVE  /\ TypeInv'
           /\ phase[s] = "join" /\ got[s] # Seat /\ up[s] = <<>>
           /\ up'[s] = up[s] \o <<CheckIn(TRUE)>> /\ up'[Other(s)] = up[Other(s)]
           /\ UNCHANGED <<seated, serverVars, down, clientVars>>
<1>1. /\ phase[s] = "join" /\ got[s] # Seat /\ up[s] = <<>> /\ Says(s, <<CheckIn(TRUE)>>)
      /\ UNCHANGED <<seated, serverVars, down, clientVars>>
    BY DEF CheckInAgain
<1>2. <<CheckIn(TRUE)>> \in Seq(UpMsg(s))
    BY MessagesTyped, OneMessage
<1>3. /\ up'[s] = up[s] \o <<CheckIn(TRUE)>> /\ up'[Other(s)] = up[Other(s)] /\ UpType'
    BY <1>1, <1>2, ClientSays DEF TypeInv
<1>4. ServerType' /\ ClientType' /\ DownType'
    BY <1>1 DEF TypeInv, DownType, ServerType, ClientType, serverVars, clientVars
<1> QED
    BY <1>1, <1>3, <1>4 DEF TypeInv

LEMMA GarbageSaid ==
    ASSUME TypeInv, NEW s \in Seat, Garbage(s)
    PROVE  /\ TypeInv'
           /\ up[s] = <<>>
           /\ \E msg \in {CheckIn(FALSE), Refused(s)} : up'[s] = up[s] \o <<msg>>
           /\ up'[Other(s)] = up[Other(s)]
           /\ UNCHANGED <<seated, serverVars, down, clientVars>>
<1>1. up[s] = <<>> /\ UNCHANGED <<seated, serverVars, down, clientVars>>
    BY DEF Garbage
<1>2. PICK msg \in {CheckIn(FALSE), Refused(s)} : Says(s, <<msg>>)
    BY DEF Garbage, Refused
<1>3. <<msg>> \in Seq(UpMsg(s))
    BY MessagesTyped, OneMessage
<1>4. /\ up'[s] = up[s] \o <<msg>> /\ up'[Other(s)] = up[Other(s)] /\ UpType'
    BY <1>2, <1>3, ClientSays DEF TypeInv
<1>5. ServerType' /\ ClientType' /\ DownType'
    BY <1>1 DEF TypeInv, DownType, ServerType, ClientType, serverVars, clientVars
<1> QED
    BY <1>1, <1>4, <1>5 DEF TypeInv

\* Begin, Move and EndMatch.
LEMMA Written ==
    ASSUME TypeInv, NEW s \in Seat, NEW w \in Writes(s), MyTurn(s), SendTransaction(s, w.items)
    PROVE  /\ TypeInv'
           /\ phase[s] = "play" /\ Turn(view[s]) = s /\ view[s] \in States
           /\ up'[s] = up[s] \o <<w>> /\ up'[Other(s)] = up[Other(s)]
           /\ view' = [view EXCEPT ![s] = ApplyAll(view[s], w.items)]
           /\ UNCHANGED <<seated, serverVars, down, phase, got, dice, again>>
<1>1. phase[s] = "play" /\ Turn(view[s]) = s
    BY DEF MyTurn, Turn
<1>2. /\ Says(s, <<Transaction(w.items)>>)
      /\ view' = [view EXCEPT ![s] = ApplyAll(view[s], w.items)]
      /\ UNCHANGED <<seated, serverVars, down, phase, got, dice, again>>
    BY DEF SendTransaction
<1>3. Transaction(w.items) = w
    BY DEF Writes, BeginTx, EndTx, Moves, MoveTx, Transaction
<1>4. <<w>> \in Seq(UpMsg(s))
    BY MessagesTyped, OneMessage
<1>5. /\ up'[s] = up[s] \o <<w>> /\ up'[Other(s)] = up[Other(s)] /\ UpType'
    BY <1>2, <1>3, <1>4, ClientSays DEF TypeInv
<1>6. view[s] \in States
    BY <1>1 DEF TypeInv, ClientType
<1>7. ApplyAll(view[s], w.items) \in States
    BY <1>6, Applied
<1>8. ClientType'
    <2> DEFINE new == ApplyAll(view[s], w.items)
    <2> HIDE DEF new
    <2>1. new \in States /\ view' = [view EXCEPT ![s] = new]
        BY <1>2, <1>7 DEF new
    <2> QED
        BY <1>2, <2>1 DEF TypeInv, ClientType
<1>9. ServerType' /\ DownType'
    BY <1>2 DEF TypeInv, DownType, ServerType, serverVars
<1> QED
    BY <1>1, <1>2, <1>5, <1>6, <1>8, <1>9 DEF TypeInv

LEMMA RollAsked ==
    ASSUME TypeInv, NEW s \in Seat, Roll(s)
    PROVE  /\ TypeInv'
           /\ phase[s] = "play" /\ Stage(view[s]) = "initialRoll" /\ dice[s][s] = -1 /\ ~HasAsked(s)
           /\ up'[s] = up[s] \o <<RollRequest>> /\ up'[Other(s)] = up[Other(s)]
           /\ UNCHANGED <<seated, serverVars, down, clientVars>>
<1>1. /\ phase[s] = "play" /\ Stage(view[s]) = "initialRoll" /\ dice[s][s] = -1 /\ ~HasAsked(s)
      /\ Says(s, <<RollRequest>>) /\ UNCHANGED <<seated, serverVars, down, clientVars>>
    BY DEF Roll, IsIn, Stage, RollRequest
<1>2. <<RollRequest>> \in Seq(UpMsg(s))
    BY MessagesTyped, OneMessage
<1>3. /\ up'[s] = up[s] \o <<RollRequest>> /\ up'[Other(s)] = up[Other(s)] /\ UpType'
    BY <1>1, <1>2, ClientSays DEF TypeInv
<1>4. ServerType' /\ ClientType' /\ DownType'
    BY <1>1 DEF TypeInv, DownType, ServerType, ClientType, serverVars, clientVars
<1> QED
    BY <1>1, <1>3, <1>4 DEF TypeInv

LEMMA MatchAsked ==
    ASSUME TypeInv, NEW s \in Seat, NewMatch(s)
    PROVE  /\ TypeInv'
           /\ phase[s] = "play" /\ Stage(view[s]) = "matchOver"
           /\ up'[s] = up[s] \o (<<MatchRequest>> \o Introduction) /\ up'[Other(s)] = up[Other(s)]
           /\ phase' = [phase EXCEPT ![s] = "join"] /\ got' = [got EXCEPT ![s] = {}]
           /\ view' = [view EXCEPT ![s] = NoView] /\ dice' = [dice EXCEPT ![s] = NoRoll]
           /\ again' = TRUE /\ UNCHANGED <<seated, serverVars, down>>
<1>1. /\ phase[s] = "play" /\ Stage(view[s]) = "matchOver"
      /\ Says(s, <<MatchRequest>> \o Introduction)
      /\ phase' = [phase EXCEPT ![s] = "join"] /\ got' = [got EXCEPT ![s] = {}]
      /\ view' = [view EXCEPT ![s] = NoView] /\ dice' = [dice EXCEPT ![s] = NoRoll]
      /\ again' = TRUE /\ UNCHANGED <<seated, serverVars, down>>
    BY DEF NewMatch, IsIn, Stage, MatchRequest
<1>2. /\ up'[s] = up[s] \o (<<MatchRequest>> \o Introduction) /\ up'[Other(s)] = up[Other(s)]
      /\ UpType'
    BY <1>1, IntroductionTyped, ClientSays DEF TypeInv
<1>3. NoRoll \in Rolls
    BY DEF NoRoll, Rolls
<1>4. ServerType' /\ ClientType' /\ DownType'
    <2>1. ServerType' /\ DownType'
        BY <1>1 DEF TypeInv, DownType, ServerType, ClientType, serverVars
    <2>2. ClientType'
        BY <1>1, <1>3 DEF TypeInv, ClientType
    <2> QED
        BY <2>1, <2>2
<1> QED
    BY <1>1, <1>2, <1>4 DEF TypeInv

LEMMA Left ==
    ASSUME TypeInv, NEW s \in Seat, Leave(s)
    PROVE  TypeInv' /\ phase'[s] = "gone"
<1>1. /\ seated' = [seated EXCEPT ![s] = FALSE] /\ phase' = [phase EXCEPT ![s] = "gone"]
      /\ up' = [up EXCEPT ![s] = <<>>] /\ down' = [down EXCEPT ![s] = <<>>]
      /\ UNCHANGED <<serverVars, got, view, dice, again>>
    BY DEF Leave
<1>2. UpType' /\ DownType'
    <2>1. \A M : <<>> \in Seq(M) /\ Len(<<>>) = 0
        OBVIOUS
    <2> QED
        BY <1>1, <2>1, QueueAssumption DEF TypeInv, UpType, DownType
<1>3. phase'[s] = "gone" /\ ServerType' /\ ClientType'
    BY <1>1 DEF TypeInv, ServerType, ClientType, serverVars
<1> QED
    BY <1>2, <1>3 DEF TypeInv

\* A message of each kind, and whether the client goes on with it.
LEMMA Received ==
    ASSUME TypeInv, NEW s \in Seat, Receive(s)
    PROVE  /\ TypeInv'
           /\ down[s] # <<>> /\ Head(down[s]) \in DownMsg(s)
           /\ down'[s] = Tail(down[s]) /\ down'[Other(s)] = down[Other(s)]
           /\ UNCHANGED <<seated, serverVars, up, again>>
           /\ got'[Other(s)] = got[Other(s)] /\ view'[Other(s)] = view[Other(s)]
           /\ dice'[Other(s)] = dice[Other(s)] /\ phase'[Other(s)] = phase[Other(s)]
           /\ \A x \in Seat : Head(down[s]) = CheckInOf(x) => got'[s] = got[s] \cup {x}
           /\ (\A x \in Seat : Head(down[s]) # CheckInOf(x)) => got'[s] = got[s]
           /\ \A st \in States : Head(down[s]) = StateMsg(st) => view'[s] = st
           /\ Head(down[s]) \in Writes(Other(s)) =>
                view'[s] = IF view[s] = NoView THEN NoView
                           ELSE ApplyAll(view[s], Head(down[s]).items)
           /\ Head(down[s]) \notin StateMsgs \cup Writes(Other(s)) => view'[s] = view[s]
           /\ \A y \in Seat, d \in Die : Head(down[s]) = DiceMsg(y, d) =>
                dice'[s] = [dice[s] EXCEPT ![y] = d]
           /\ (\A y \in Seat : Head(down[s]) \notin DiceMsgs(y)) => dice'[s] = dice[s]
           /\ phase'[s] = IF phase[s] = "join" /\ got'[s] = Seat /\ view'[s] # NoView
                          THEN "play" ELSE phase[s]
<1> DEFINE t == Other(s)
           msg == Head(down[s])
           goes == phase[s] = "join" /\ got'[s] = Seat /\ view'[s] # NoView
           newView == CASE msg.type = "state" -> msg.state
                        [] msg.type = "transaction" /\ view[s] # NoView -> ApplyAll(view[s], msg.items)
                        [] OTHER -> view[s]
           newGot == IF msg.type = "checkIn" THEN got[s] \cup {msg.seat} ELSE got[s]
           newDice == IF msg.type = "diceRoll" THEN [dice[s] EXCEPT ![msg.seat] = msg.value]
                      ELSE dice[s]
<1>1. /\ down[s] # <<>>
      /\ down' = [down EXCEPT ![s] = Tail(@)]
      /\ UNCHANGED <<seated, serverVars, up, again>>
    BY DEF Receive
<1>2. got' = [got EXCEPT ![s] = newGot]
    BY DEF Receive
<1>3. view' = [view EXCEPT ![s] = newView]
    BY DEF Receive
<1>4. dice' = [dice EXCEPT ![s] = newDice]
    BY DEF Receive
<1>5. phase' = [phase EXCEPT ![s] = IF goes THEN "play" ELSE phase[s]]
    BY DEF Receive
<1>6. /\ msg \in DownMsg(s) /\ down[s] \in Seq(DownMsg(s))
      /\ down'[s] = Tail(down[s]) /\ down'[t] = down[t] /\ DownType'
    BY <1>1, ClientHears DEF TypeInv
<1>7. t \in Seat /\ t # s /\ s = Other(t) /\ \A x \in Seat : x = s \/ x = t
    BY SeatFacts
<1>8. /\ phase \in [Seat -> {"out", "join", "play", "gone"}] /\ got \in [Seat -> SUBSET Seat]
      /\ view \in [Seat -> States \cup {NoView}]
      /\ (\A x \in Seat : phase[x] = "play" => view[x] \in States) /\ dice \in [Seat -> Rolls]
    BY DEF TypeInv, ClientType
<1>9. ASSUME NEW x \in Seat, msg = CheckInOf(x)
      PROVE  /\ newGot = got[s] \cup {x} /\ newView = view[s] /\ newDice = dice[s]
    <2>1. msg.type = "checkIn" /\ msg.seat = x
        BY <1>9, KindFacts
    <2> HIDE DEF msg
    <2> QED
        BY <2>1
<1>10. ASSUME NEW st \in States, msg = StateMsg(st)
      PROVE  /\ newGot = got[s] /\ newView = st /\ newDice = dice[s]
    <2>1. msg.type = "state" /\ msg.state = st
        BY <1>10, KindFacts
    <2> HIDE DEF msg
    <2> QED
        BY <2>1
<1>11. ASSUME NEW y \in Seat, NEW d \in Die, msg = DiceMsg(y, d)
      PROVE  /\ newGot = got[s] /\ newView = view[s] /\ newDice = [dice[s] EXCEPT ![y] = d]
    <2>1. msg.type = "diceRoll" /\ msg.seat = y /\ msg.value = d
        BY <1>11, KindFacts
    <2> HIDE DEF msg
    <2> QED
        BY <2>1
<1>12. ASSUME msg \in Writes(t)
      PROVE  /\ newGot = got[s] /\ newDice = dice[s]
             /\ newView = IF view[s] = NoView THEN NoView ELSE ApplyAll(view[s], msg.items)
    <2>1. msg.type = "transaction"
        BY <1>7, <1>12, KindFacts
    <2> HIDE DEF msg
    <2> QED
        BY <2>1
<1>13. \/ \E x \in Seat : msg = CheckInOf(x)
       \/ \E st \in States : msg = StateMsg(st)
       \/ \E y \in Seat, d \in Die : msg = DiceMsg(y, d)
       \/ msg \in Writes(t)
    BY <1>6, DownKinds DEF StateMsgs, DiceMsgs
<1>14. newGot \in SUBSET Seat /\ newView \in States \cup {NoView} /\ newDice \in Rolls
       /\ (view[s] # NoView => newView # NoView)
    <2>1. view[s] # NoView /\ msg \in Writes(t) => ApplyAll(view[s], msg.items) \in States
        BY <1>7, <1>8, Applied
    <2>2. \A y \in Seat, d \in Die : [dice[s] EXCEPT ![y] = d] \in Rolls
        BY <1>8 DEF Rolls
    <2> HIDE DEF newGot, newView, newDice, msg
    <2>3. CASE \E x \in Seat : msg = CheckInOf(x)
        BY <1>8, <1>9, <2>3
    <2>4. CASE \E st \in States : msg = StateMsg(st)
        BY <1>8, <1>10, <2>4, StateFacts
    <2>5. CASE \E y \in Seat, d \in Die : msg = DiceMsg(y, d)
        BY <1>8, <1>11, <2>2, <2>5
    <2>7. CASE msg \in Writes(t)
        BY <1>8, <1>12, <2>1, <2>7, StateFacts
    <2> QED
        BY <1>13, <2>3, <2>4, <2>5, <2>7
<1>15. /\ got'[s] = newGot /\ view'[s] = newView /\ dice'[s] = newDice
       /\ got'[t] = got[t] /\ view'[t] = view[t] /\ dice'[t] = dice[t]
    <2> HIDE DEF newGot, newView, newDice
    <2> QED
        BY <1>2, <1>3, <1>4, <1>7, <1>8
<1>16. /\ phase'[s] = (IF goes THEN "play" ELSE phase[s])
       /\ phase'[t] = phase[t]
    <2> HIDE DEF goes
    <2> QED
        BY <1>5, <1>7, <1>8
<1>17. ClientType'
    <2>1. /\ got' \in [Seat -> SUBSET Seat] /\ view' \in [Seat -> States \cup {NoView}]
          /\ dice' \in [Seat -> Rolls]
        <3> HIDE DEF newGot, newView, newDice
        <3> QED
            BY <1>2, <1>3, <1>4, <1>8, <1>14
    <2>3. phase' \in [Seat -> {"out", "join", "play", "gone"}]
        <3> HIDE DEF goes
        <3> QED
            BY <1>5, <1>8
    <2>4. \A x \in Seat : phase'[x] = "play" => view'[x] \in States
        <3>1. phase'[t] = "play" => view'[t] \in States
            BY <1>7, <1>8, <1>15, <1>16
        <3>2. phase'[s] = "play" => view'[s] # NoView
            <4>1. goes => view'[s] # NoView
                OBVIOUS
            <4> HIDE DEF goes, newView, newGot, newDice
            <4> QED
                BY <1>8, <1>14, <1>15, <1>16, <4>1, StateFacts
        <3>3. view'[s] \in States \cup {NoView}
            BY <2>1
        <3> QED
            BY <1>7, <3>1, <3>2, <3>3
    <2> QED
        BY <1>1, <2>1, <2>3, <2>4 DEF TypeInv, ClientType
<1>18. TypeInv'
    <2>1. UpType'
        BY <1>1 DEF TypeInv, UpType
    <2>2. ServerType'
        <3>1. \A x \in Seat : (phase'[x] # "gone") = (phase[x] # "gone")
            <4> HIDE DEF goes
            <4>1. phase'[s] = phase[s] \/ (phase'[s] = "play" /\ phase[s] = "join")
                BY <1>16 DEF goes
            <4> QED
                BY <1>7, <1>16, <4>1
        <3> QED
            BY <1>1, <1>8, <3>1 DEF TypeInv, ServerType, serverVars
    <2> QED
        BY <1>6, <1>17, <2>1, <2>2 DEF TypeInv
<1>19. /\ \A x \in Seat : msg = CheckInOf(x) => got'[s] = got[s] \cup {x}
       /\ (\A x \in Seat : msg # CheckInOf(x)) => got'[s] = got[s]
    <2> HIDE DEF msg, newGot, newView, newDice
    <2> QED
        BY <1>9, <1>10, <1>11, <1>12, <1>13, <1>15
<1>20. /\ \A st \in States : msg = StateMsg(st) => view'[s] = st
       /\ msg \in Writes(t) =>
            view'[s] = IF view[s] = NoView THEN NoView ELSE ApplyAll(view[s], msg.items)
       /\ msg \notin StateMsgs \cup Writes(t) => view'[s] = view[s]
    <2>1. msg \notin StateMsgs => ~\E st \in States : msg = StateMsg(st)
        BY DEF StateMsgs
    <2> HIDE DEF msg, newGot, newView, newDice
    <2> QED
        BY <1>9, <1>10, <1>11, <1>12, <1>13, <1>15, <2>1
<1>21. /\ \A y \in Seat, d \in Die : msg = DiceMsg(y, d) => dice'[s] = [dice[s] EXCEPT ![y] = d]
       /\ (\A y \in Seat : msg \notin DiceMsgs(y)) => dice'[s] = dice[s]
    <2>1. (\A y \in Seat : msg \notin DiceMsgs(y)) => ~\E y \in Seat, d \in Die : msg = DiceMsg(y, d)
        BY DEF DiceMsgs
    <2> HIDE DEF msg, newGot, newView, newDice
    <2> QED
        BY <1>9, <1>10, <1>11, <1>12, <1>13, <1>15, <2>1
<1> HIDE DEF newGot, newView, newDice
<1> QED
    BY <1>1, <1>6, <1>15, <1>16, <1>18, <1>19, <1>20, <1>21

LEMMA TypesKept == TypeInv /\ [Next]_vars => TypeInv'
<1> SUFFICES ASSUME TypeInv, [Next]_vars PROVE TypeInv'
    OBVIOUS
<1>1. CASE UNCHANGED vars
    BY <1>1 DEF TypeInv, UpType, DownType, ServerType, ClientType, vars, serverVars, clientVars
<1>2. ASSUME NEW s \in Seat, HandleMessage(s) PROVE TypeInv'
    BY <1>2, CheckInTaken, CheckInRefused, StateSent, TransactionTaken, RollTaken,
       MatchRequestTaken DEF HandleMessage
<1>3. ASSUME NEW s \in Seat, Begin(s) \/ Move(s) \/ EndMatch(s) PROVE TypeInv'
    <2>1. \E w \in Writes(s) : SendTransaction(s, w.items)
        BY <1>3, WriteFacts DEF Begin, Move, EndMatch
    <2>2. MyTurn(s)
        BY <1>3 DEF Begin, Move, EndMatch
    <2> QED
        BY <2>1, <2>2, Written
<1>4. ASSUME NEW s \in Seat, Client(s) PROVE TypeInv'
    BY <1>3, <1>4, Joined, CheckedInAgain, GarbageSaid, RollAsked, MatchAsked, Received, Left
       DEF Client
<1> QED
    BY <1>1, <1>2, <1>4 DEF Next

LEMMA TypesAtFirst == Init => TypeInv
<1> SUFFICES ASSUME Init PROVE TypeInv
    OBVIOUS
<1>1. /\ \A M : <<>> \in Seq(M)
      /\ Len(<<>>) = 0
    OBVIOUS
<1>2. NoRoll \in Rolls /\ Undelivered \in [Seat -> [Seat -> BOOLEAN]] /\ NoneOf \in [Seat -> BOOLEAN]
    BY DEF NoRoll, Rolls, Undelivered, NoneOf
<1>3. UpType /\ DownType
    BY <1>1, QueueAssumption DEF Init, UpType, DownType
<1> QED
    BY <1>2, <1>3, StateFacts DEF Init, TypeInv, ServerType, ClientType

\* The state and what is under way are what the program knows them to be.
THEOREM TypeCorrect == Spec => []TypeOK
<1>1. TypeInv => TypeOK
    <2> SUFFICES ASSUME TypeInv PROVE TypeOK
        OBVIOUS
    <2>1. seated \in [Seat -> BOOLEAN]
        BY DEF TypeInv, ServerType
    <2> QED
        BY <2>1 DEF TypeOK, TypeInv, UpType, ServerType, ClientType
<1> QED
    BY <1>1, TypesAtFirst, TypesKept, PTL DEF Spec

-----------------------------------------------------------------------------
(* What is under way when a message is taken or added *)

Both == \A s \in Seat : phase[s] # "gone"

One(m) == {m}

\* What is under way from s to the server.
CheckInUp(s) == Has(up[s], One(CheckIn(TRUE)))
StateUp(s) == Has(up[s], One(StateRequest))
MatchUp(s) == Has(up[s], One(MatchRequest))
RollUp(s) == Has(up[s], One(RollRequest))
WriteUp(s) == Has(up[s], Writes(s))

\* What is under way from the server to s.
CheckInDown(s, x) == Has(down[s], One(CheckInOf(x)))
StateDown(s) == Has(down[s], StateMsgs)
DiceDown(s, y) == Has(down[s], DiceMsgs(y))
WriteDown(s) == Has(down[s], Writes(Other(s)))

LEMMA OneFacts == \A m, k : k \in One(m) <=> k = m
BY DEF One

LEMMA TypesOfMessages ==
    /\ CheckIn(TRUE).type = "checkIn" /\ CheckIn(FALSE).type = "checkIn"
    /\ StateRequest.type = "stateRequest" /\ RollRequest.type = "rollRequest"
    /\ MatchRequest.type = "newMatch"
    /\ \A y : CheckInOf(y).type = "checkIn"
    /\ \A m \in StateMsgs : m.type = "state"
    /\ \A y : \A m \in DiceMsgs(y) : m.type = "diceRoll"
    /\ \A x : \A w \in Writes(x) : w.type = "transaction"
    /\ \A x : Refused(x).type = "transaction"
BY KindFacts, Zenon

LEMMA MessagesApart ==
    /\ CheckIn(TRUE) # CheckIn(FALSE)
    /\ CheckIn(TRUE) # StateRequest /\ CheckIn(TRUE) # RollRequest /\ CheckIn(TRUE) # MatchRequest
    /\ CheckIn(FALSE) # StateRequest /\ CheckIn(FALSE) # RollRequest
    /\ CheckIn(FALSE) # MatchRequest
    /\ StateRequest # RollRequest /\ StateRequest # MatchRequest
    /\ RollRequest # MatchRequest
    /\ \A x : /\ CheckIn(TRUE) \notin Writes(x) /\ CheckIn(FALSE) \notin Writes(x)
              /\ StateRequest \notin Writes(x) /\ RollRequest \notin Writes(x)
              /\ MatchRequest \notin Writes(x)
    /\ \A x : /\ Refused(x) # CheckIn(TRUE) /\ Refused(x) # StateRequest
              /\ Refused(x) # RollRequest /\ Refused(x) # MatchRequest
<1>1. CheckIn(TRUE) # CheckIn(FALSE)
    BY KindFacts
<1> QED
    BY <1>1, TypesOfMessages

LEMMA RepliesApart ==
    /\ \A y : /\ CheckInOf(y) \notin StateMsgs
              /\ \A x : CheckInOf(x) \notin DiceMsgs(y) /\ CheckInOf(x) \notin Writes(y)
    /\ \A x, y : x # y => CheckInOf(x) # CheckInOf(y)
    /\ \A y : \A m \in DiceMsgs(y) :
          /\ m \notin StateMsgs
          /\ \A x : m # CheckInOf(x) /\ m \notin Writes(x)
          /\ \A x : x # y => m \notin DiceMsgs(x)
    /\ \A m \in StateMsgs : \A x : m # CheckInOf(x) /\ m \notin Writes(x) /\ m \notin DiceMsgs(x)
    /\ \A y : \A m \in Writes(y) :
          /\ m \notin StateMsgs
          /\ \A x : m # CheckInOf(x) /\ m \notin DiceMsgs(x)
<1>1. /\ \A x, y : x # y => CheckInOf(x) # CheckInOf(y)
      /\ \A y : \A m \in DiceMsgs(y) : \A x : x # y => m \notin DiceMsgs(x)
    BY KindFacts
<1> QED
    BY <1>1, TypesOfMessages

LEMMA RefusedIsNoWrite == \A s \in Seat : Refused(s) \notin Writes(s)
BY ValidWrites

LEMMA UpTaken ==
    ASSUME TypeInv, NEW s \in Seat, NEW h, up[s] # <<>>, Head(up[s]) = h, up'[s] = Tail(up[s])
    PROVE  /\ \A S : Has(up[s], S) <=> h \in S \/ Has(up'[s], S)
           /\ \A S : Once(up[s], S) => Once(up'[s], S) /\ (h \in S => ~Has(up'[s], S))
           /\ \A S, T : Before(up[s], S, T) =>
                 Before(up'[s], S, T) /\ (h \in T => ~Has(up[s], S))
           /\ \A S, T : Followed(up[s], S, T) =>
                 Followed(up'[s], S, T) /\ (h \in S => Has(up'[s], T))
<1> DEFINE q == up[s]
           r == up'[s]
<1>1. q \in Seq(UpMsg(s)) /\ q # <<>> /\ r = Tail(q) /\ h = Head(q)
    BY DEF TypeInv, UpType
<1> HIDE DEF q, r
<1>2. /\ \A S : Has(q, S) <=> h \in S \/ Has(r, S)
      /\ \A S : Once(q, S) => Once(r, S) /\ (h \in S => ~Has(r, S))
      /\ \A S, T : Before(q, S, T) => Before(r, S, T) /\ (h \in T => ~Has(q, S))
      /\ \A S, T : Followed(q, S, T) => Followed(r, S, T) /\ (h \in S => Has(r, T))
    BY <1>1, HeadTaken
<1> QED
    BY <1>2 DEF q, r

LEMMA DownTaken ==
    ASSUME TypeInv, NEW s \in Seat, NEW h, down[s] # <<>>, Head(down[s]) = h,
           down'[s] = Tail(down[s])
    PROVE  /\ \A S : Has(down[s], S) <=> h \in S \/ Has(down'[s], S)
           /\ \A S : Once(down[s], S) => Once(down'[s], S) /\ (h \in S => ~Has(down'[s], S))
           /\ \A S, T : Before(down[s], S, T) =>
                 Before(down'[s], S, T) /\ (h \in T => ~Has(down[s], S))
<1> DEFINE q == down[s]
           r == down'[s]
<1>1. q \in Seq(DownMsg(s)) /\ q # <<>> /\ r = Tail(q) /\ h = Head(q)
    BY DEF TypeInv, DownType
<1> HIDE DEF q, r
<1>2. /\ \A S : Has(q, S) <=> h \in S \/ Has(r, S)
      /\ \A S : Once(q, S) => Once(r, S) /\ (h \in S => ~Has(r, S))
      /\ \A S, T : Before(q, S, T) => Before(r, S, T) /\ (h \in T => ~Has(q, S))
    BY <1>1, HeadTaken
<1> QED
    BY <1>2 DEF q, r

\* One message is added.
LEMMA UpAdded ==
    ASSUME TypeInv, NEW s \in Seat, NEW m \in UpMsg(s), up'[s] = up[s] \o <<m>>
    PROVE  /\ \A S : Has(up'[s], S) <=> Has(up[s], S) \/ m \in S
           /\ \A S : Once(up[s], S) /\ (m \in S => ~Has(up[s], S)) => Once(up'[s], S)
           /\ \A S, T : Before(up[s], S, T) /\ (m \in S => m \notin T /\ ~Has(up[s], T))
                 => Before(up'[s], S, T)
           /\ \A S, T : Followed(up[s], S, T) /\ m \notin S => Followed(up'[s], S, T)
<1> DEFINE q == up[s]
           r == <<m>>
           c == up'[s]
<1>1. q \in Seq(UpMsg(s)) /\ c = q \o r
    BY DEF TypeInv, UpType
<1>2. /\ r \in Seq(UpMsg(s))
      /\ \A S : (Has(r, S) <=> m \in S) /\ Once(r, S)
      /\ \A S, T : Before(r, S, T) <=> ~(m \in S /\ m \in T)
      /\ \A S, T : Followed(r, S, T) <=> m \notin S
    BY OneMessage
<1> HIDE DEF q, r, c
<1>3. /\ \A S : Has(c, S) <=> Has(q, S) \/ Has(r, S)
      /\ \A S : Once(q, S) /\ ~Has(r, S) => Once(c, S)
      /\ \A S : Once(r, S) /\ ~Has(q, S) => Once(c, S)
      /\ \A S, T : Before(q, S, T) /\ Before(r, S, T) /\ ~(Has(q, T) /\ Has(r, S)) => Before(c, S, T)
      /\ \A S, T : (Followed(q, S, T) \/ Has(r, T)) /\ Followed(r, S, T) => Followed(c, S, T)
    BY <1>1, <1>2, Appended
<1>4. /\ \A S : Has(c, S) <=> Has(q, S) \/ m \in S
      /\ \A S : Once(q, S) /\ (m \in S => ~Has(q, S)) => Once(c, S)
      /\ \A S, T : Before(q, S, T) /\ (m \in S => m \notin T /\ ~Has(q, T)) => Before(c, S, T)
      /\ \A S, T : Followed(q, S, T) /\ m \notin S => Followed(c, S, T)
    BY <1>2, <1>3
<1> QED
    BY <1>4 DEF q, c

LEMMA DownAdded ==
    ASSUME TypeInv, NEW s \in Seat, NEW m \in DownMsg(s), down'[s] = down[s] \o <<m>>
    PROVE  /\ \A S : Has(down'[s], S) <=> Has(down[s], S) \/ m \in S
           /\ \A S : Once(down[s], S) /\ (m \in S => ~Has(down[s], S)) => Once(down'[s], S)
           /\ \A S, T : Before(down[s], S, T) /\ (m \in S => m \notin T /\ ~Has(down[s], T))
                 => Before(down'[s], S, T)
<1> DEFINE q == down[s]
           r == <<m>>
           c == down'[s]
<1>1. q \in Seq(DownMsg(s)) /\ c = q \o r
    BY DEF TypeInv, DownType
<1>2. /\ r \in Seq(DownMsg(s))
      /\ \A S : (Has(r, S) <=> m \in S) /\ Once(r, S)
      /\ \A S, T : Before(r, S, T) <=> ~(m \in S /\ m \in T)
    BY OneMessage
<1> HIDE DEF q, r, c
<1>3. /\ \A S : Has(c, S) <=> Has(q, S) \/ Has(r, S)
      /\ \A S : Once(q, S) /\ ~Has(r, S) => Once(c, S)
      /\ \A S : Once(r, S) /\ ~Has(q, S) => Once(c, S)
      /\ \A S, T : Before(q, S, T) /\ Before(r, S, T) /\ ~(Has(q, T) /\ Has(r, S)) => Before(c, S, T)
    BY <1>1, <1>2, Appended
<1>4. /\ \A S : Has(c, S) <=> Has(q, S) \/ m \in S
      /\ \A S : Once(q, S) /\ (m \in S => ~Has(q, S)) => Once(c, S)
      /\ \A S, T : Before(q, S, T) /\ (m \in S => m \notin T /\ ~Has(q, T)) => Before(c, S, T)
    BY <1>2, <1>3
<1> QED
    BY <1>4 DEF q, c

-----------------------------------------------------------------------------
(* The introductions *)

\* The server has seen the check-in of s for this match; s has been told of x, or
\* will be.
Settled(s) == phase[s] # "out" /\ ~MatchUp(s) /\ ~CheckInUp(s)
Learned(s, x) == x \in got[s] \/ CheckInDown(s, x)

\* What a client asks for when it begins a match.
AsksInv(s) ==
    /\ Followed(up[s], One(MatchRequest), One(CheckIn(TRUE)))
    /\ Followed(up[s], One(MatchRequest), One(StateRequest))
    /\ phase[s] = "out" => ~MatchUp(s) /\ ~CheckInUp(s) /\ ~StateUp(s)
    /\ phase[s] = "join" => StateUp(s) \/ StateDown(s) \/ view[s] # NoView

\* Of two whose check-ins the server has seen, each is told of both; and who waits has
\* not all it waits for.
ToldInv(s) ==
    /\ phase[s] = "out" => ~Learned(s, s)
    /\ Settled(s) => checkedIn[s] /\ Learned(s, s)
    /\ delivered[s][Other(s)] /\ ~MatchUp(s) => Learned(s, Other(s))
    /\ Settled(s) /\ Settled(Other(s)) => delivered[s][Other(s)]
    /\ phase[s] = "join" => got[s] # Seat \/ view[s] = NoView

IntroInv(s) == AsksInv(s) /\ ToldInv(s)
Introduced == Both => \A s \in Seat : IntroInv(s)

\* The same check-ins and requests of a match are under way.
UpSame(s) ==
    /\ CheckInUp(s)' <=> CheckInUp(s)
    /\ StateUp(s)' <=> StateUp(s)
    /\ MatchUp(s)' <=> MatchUp(s)
    /\ \A T : Followed(up[s], One(MatchRequest), T) => Followed(up'[s], One(MatchRequest), T)
DownSame(s) ==
    /\ \A x : CheckInDown(s, x)' <=> CheckInDown(s, x)
    /\ StateDown(s)' <=> StateDown(s)

LEMMA UpUnchanged == ASSUME NEW s \in Seat, up'[s] = up[s] PROVE UpSame(s)
BY DEF UpSame, CheckInUp, StateUp, MatchUp

LEMMA DownUnchanged == ASSUME NEW s \in Seat, down'[s] = down[s] PROVE DownSame(s)
BY DEF DownSame, CheckInDown, StateDown

Noise(s) == {CheckIn(FALSE), RollRequest, Refused(s)} \cup Writes(s)

LEMMA NoiseApart ==
    ASSUME NEW s \in Seat, NEW m \in Noise(s)
    PROVE  m # CheckIn(TRUE) /\ m # StateRequest /\ m # MatchRequest /\ m \in UpMsg(s)
BY MessagesApart, MessagesTyped DEF Noise

LEMMA NoiseTaken ==
    ASSUME TypeInv, NEW s \in Seat, up[s] # <<>>, Head(up[s]) \in Noise(s), up'[s] = Tail(up[s])
    PROVE  UpSame(s)
<1> DEFINE m == Head(up[s])
<1>1. m # CheckIn(TRUE) /\ m # StateRequest /\ m # MatchRequest
    BY NoiseApart
<1>2. /\ \A S : Has(up[s], S) <=> m \in S \/ Has(up'[s], S)
      /\ \A S, T : Followed(up[s], S, T) => Followed(up'[s], S, T)
    BY UpTaken
<1> QED
    BY <1>1, <1>2, OneFacts DEF UpSame, CheckInUp, StateUp, MatchUp

LEMMA NoiseAdded ==
    ASSUME TypeInv, NEW s \in Seat, NEW m \in Noise(s), up'[s] = up[s] \o <<m>>
    PROVE  UpSame(s)
<1>1. m # CheckIn(TRUE) /\ m # StateRequest /\ m # MatchRequest /\ m \in UpMsg(s)
    BY NoiseApart
<1>2. /\ \A S : Has(up'[s], S) <=> Has(up[s], S) \/ m \in S
      /\ \A S, T : Followed(up[s], S, T) /\ m \notin S => Followed(up'[s], S, T)
    BY <1>1, UpAdded
<1> QED
    BY <1>1, <1>2, OneFacts DEF UpSame, CheckInUp, StateUp, MatchUp

\* What is neither a check-in nor the state.
LEMMA ReplyAdded ==
    ASSUME TypeInv, NEW s \in Seat, NEW m \in DownMsg(s), down'[s] = down[s] \o <<m>>,
           m \notin StateMsgs, \A x : m # CheckInOf(x)
    PROVE  DownSame(s)
<1>1. \A S : Has(down'[s], S) <=> Has(down[s], S) \/ m \in S
    BY DownAdded
<1> QED
    BY <1>1, OneFacts DEF DownSame, CheckInDown, StateDown

\* Nothing happens to the introductions.
LEMMA IntroKept ==
    ASSUME NEW s \in Seat, NEW t \in Seat, t = Other(s), IntroInv(s),
           checkedIn' = checkedIn, delivered' = delivered,
           phase' = phase, got' = got,
           view'[s] = view[s] \/ phase[s] = "play",
           UpSame(s), UpSame(t), DownSame(s)
    PROVE  IntroInv(s)'
<1>1. /\ Settled(s)' <=> Settled(s)
      /\ Settled(t)' <=> Settled(t)
      /\ \A x : Learned(s, x)' <=> Learned(s, x)
    BY DEF Settled, Learned, UpSame, DownSame
<1>2. AsksInv(s)'
    BY OneFacts DEF IntroInv, AsksInv, UpSame, DownSame
<1>3. ToldInv(s)'
    BY <1>1 DEF IntroInv, ToldInv, UpSame
<1> QED
    BY <1>2, <1>3 DEF IntroInv

\* Check-ins are told.
LEMMA CheckInsAdded ==
    ASSUME TypeInv, NEW s \in Seat, NEW r \in Seq({CheckInOf(0), CheckInOf(1)}),
           down'[s] = down[s] \o r
    PROVE  /\ StateDown(s)' <=> StateDown(s)
           /\ \A x : CheckInDown(s, x)' <=> CheckInDown(s, x) \/ Has(r, One(CheckInOf(x)))
<1> DEFINE q == down[s]
           c == down'[s]
<1>1. q \in Seq(DownMsg(s)) /\ c = q \o r
    BY DEF TypeInv, DownType
<1>2. r \in Seq(DownMsg(s))
    <2>1. CheckInOf(0) \in DownMsg(s) /\ CheckInOf(1) \in DownMsg(s)
        BY MessagesTyped
    <2> QED
        BY <2>1
<1>3. ~Has(r, StateMsgs)
    <2>1. \A i \in DOMAIN r : r[i] \in {CheckInOf(0), CheckInOf(1)}
        OBVIOUS
    <2> QED
        BY <2>1, RepliesApart DEF Has
<1> HIDE DEF q, c
<1>4. \A S : Has(c, S) <=> Has(q, S) \/ Has(r, S)
    BY <1>1, <1>2, Appended
<1> QED
    BY <1>3, <1>4 DEF CheckInDown, StateDown, q, c

LEMMA CheckInIntro ==
    ASSUME TypeInv, NEW s \in Seat, NEW t \in Seat, t = Other(s), s = Other(t), Both,
           IntroInv(s), IntroInv(t), HandleCheckIn(s)
    PROVE  IntroInv(s)' /\ IntroInv(t)'
<1> DEFINE A == CheckInOf(s)
           B == CheckInOf(t)
           C == {CheckInOf(0), CheckInOf(1)}
           learn == checkedIn[t] /\ ~delivered[s][t]
           tell  == seated[t] /\ ~delivered[t][s]
           rs == <<A>> \o If(learn, B)
           rt == If(tell, A)
<1>1. /\ up[s] # <<>> /\ Head(up[s]) = CheckIn(TRUE)
      /\ up'[s] = Tail(up[s]) /\ up'[t] = up[t]
      /\ UNCHANGED <<seated, state, initialRoll, clientVars>>
      /\ checkedIn' = [checkedIn EXCEPT ![s] = TRUE]
      /\ delivered'[s][t] = (delivered[s][t] \/ checkedIn[t])
      /\ delivered'[t][s] = (delivered[t][s] \/ seated[t])
      /\ seated[s] => down'[s] = down[s] \o rs
      /\ seated[t] => down'[t] = down[t] \o rt
    BY CheckInTaken
<1>2. s # t /\ (\A x \in Seat : x = s \/ x = t) /\ seated[s] /\ seated[t]
    BY SeatFacts DEF Both, TypeInv, ServerType
<1>3. /\ checkedIn \in [Seat -> BOOLEAN] /\ delivered \in [Seat -> [Seat -> BOOLEAN]]
    BY DEF TypeInv, ServerType
<1>4. A \in C /\ B \in C /\ A # B
    BY <1>2, SeatFacts, RepliesApart
<1> HIDE DEF A, B, C, learn, tell
<1>5. /\ rs \in Seq(C) /\ Has(rs, One(A)) /\ (learn => Has(rs, One(B)))
      /\ rt \in Seq(C) /\ (tell => Has(rt, One(A))) /\ ~Has(rt, One(B))
    <2>1. /\ <<A>> \in Seq(C) /\ <<B>> \in Seq(C) /\ <<>> \in Seq(C)
          /\ Has(<<A>>, One(A)) /\ Has(<<B>>, One(B)) /\ ~Has(<<A>>, One(B)) /\ ~Has(<<>>, One(B))
        BY <1>4, OneMessage, NoMessage, OneFacts
    <2>2. /\ If(tell, A) = IF tell THEN <<A>> ELSE <<>>
          /\ If(learn, B) = IF learn THEN <<B>> ELSE <<>>
        BY DEF If
    <2>3. If(tell, A) \in Seq(C) /\ If(learn, B) \in Seq(C)
        BY <2>1, <2>2
    <2>4. /\ <<A>> \o If(learn, B) \in Seq(C)
          /\ \A S : Has(<<A>> \o If(learn, B), S) <=> Has(<<A>>, S) \/ Has(If(learn, B), S)
        BY <2>1, <2>3, Appended
    <2> QED
        BY <2>1, <2>2, <2>3, <2>4
<1> HIDE DEF rs, rt
<1>6. /\ StateDown(s)' <=> StateDown(s)
      /\ StateDown(t)' <=> StateDown(t)
      /\ \A x : CheckInDown(s, x) => CheckInDown(s, x)'
      /\ \A x : CheckInDown(t, x) => CheckInDown(t, x)'
      /\ CheckInDown(s, s)' /\ (learn => CheckInDown(s, t)')
      /\ (tell => CheckInDown(t, s)') /\ (CheckInDown(t, t)' => CheckInDown(t, t))
    BY <1>1, <1>2, <1>5, CheckInsAdded DEF A, B, C
<1>7. /\ CheckInUp(s)
      /\ MatchUp(s)' <=> MatchUp(s)
      /\ StateUp(s)' <=> StateUp(s)
      /\ CheckInUp(s)' => CheckInUp(s)
      /\ \A S, T : Followed(up[s], S, T) => Followed(up'[s], S, T)
    <2>1. /\ \A S : Has(up[s], S) <=> CheckIn(TRUE) \in S \/ Has(up'[s], S)
          /\ \A S, T : Followed(up[s], S, T) => Followed(up'[s], S, T)
        BY <1>1, UpTaken
    <2> QED
        BY <2>1, OneFacts, MessagesApart DEF CheckInUp, StateUp, MatchUp
<1>8. UpSame(t)
    BY <1>1, UpUnchanged
<1>9. /\ phase' = phase /\ got' = got /\ view' = view
      /\ checkedIn'[s] = TRUE /\ checkedIn'[t] = checkedIn[t]
    BY <1>1, <1>2, <1>3 DEF clientVars
<1>10. AsksInv(s)' /\ AsksInv(t)'
    <2>1. AsksInv(s)'
        BY <1>6, <1>7, <1>9 DEF IntroInv, AsksInv
    <2>2. AsksInv(t)'
        BY <1>6, <1>8, <1>9 DEF IntroInv, AsksInv, UpSame
    <2> QED
        BY <2>1, <2>2
<1>11. /\ Settled(t)' <=> Settled(t)
       /\ phase[s] # "out"
       /\ \A x : Learned(s, x) => Learned(s, x)'
       /\ \A x : Learned(t, x) => Learned(t, x)'
       /\ Learned(s, s)' /\ (learn => Learned(s, t)') /\ (tell => Learned(t, s)')
       /\ Learned(t, t)' => Learned(t, t)
    BY <1>6, <1>7, <1>8, <1>9 DEF Settled, Learned, UpSame, IntroInv, AsksInv
<1>12. ToldInv(s)'
    <2>1. phase'[s] # "out"
        BY <1>9, <1>11
    <2>2. checkedIn'[s] /\ Learned(s, s)'
        BY <1>9, <1>11
    <2>3. delivered'[s][t] /\ ~MatchUp(s)' => Learned(s, t)'
        BY <1>1, <1>7, <1>11 DEF IntroInv, ToldInv, learn
    <2>4. Settled(t)' => delivered'[s][t]
        BY <1>1, <1>11 DEF IntroInv, ToldInv
    <2>5. phase'[s] = "join" => got'[s] # Seat \/ view'[s] = NoView
        BY <1>9 DEF IntroInv, ToldInv
    <2> QED
        BY <2>1, <2>2, <2>3, <2>4, <2>5 DEF ToldInv
<1>13. ToldInv(t)'
    <2>1. phase'[t] = "out" => ~Learned(t, t)'
        BY <1>9, <1>11 DEF IntroInv, ToldInv
    <2>2. Settled(t)' => checkedIn'[t] /\ Learned(t, t)'
        BY <1>9, <1>11 DEF IntroInv, ToldInv
    <2>3. delivered'[t][s] /\ ~MatchUp(t)' => Learned(t, s)'
        BY <1>1, <1>2, <1>8, <1>11 DEF IntroInv, ToldInv, tell, UpSame
    <2>4. delivered'[t][s] = TRUE
        BY <1>1, <1>2, <1>3
    <2>5. phase'[t] = "join" => got'[t] # Seat \/ view'[t] = NoView
        BY <1>9 DEF IntroInv, ToldInv
    <2> QED
        BY <2>1, <2>2, <2>3, <2>4, <2>5 DEF ToldInv
<1> QED
    BY <1>10, <1>12, <1>13 DEF IntroInv

LEMMA StateIntro ==
    ASSUME TypeInv, NEW s \in Seat, NEW t \in Seat, t = Other(s), s = Other(t), Both,
           IntroInv(s), IntroInv(t), HandleGameStateRequest(s)
    PROVE  IntroInv(s)' /\ IntroInv(t)'
<1>1. /\ up[s] # <<>> /\ Head(up[s]) = StateRequest
      /\ up'[s] = Tail(up[s]) /\ up'[t] = up[t]
      /\ UNCHANGED <<seated, serverVars, clientVars>>
      /\ down'[t] = down[t]
      /\ seated[s] => down'[s] = down[s] \o <<StateMsg(state)>>
    BY StateSent
<1>2. seated[s] /\ state \in States
    BY DEF Both, TypeInv, ServerType
<1>3. StateMsg(state) \in DownMsg(s) /\ StateMsg(state) \in StateMsgs
    BY <1>2, MessagesTyped DEF StateMsgs
<1>4. /\ StateDown(s)'
      /\ \A x : CheckInDown(s, x)' <=> CheckInDown(s, x)
    <2>1. \A S : Has(down'[s], S) <=> Has(down[s], S) \/ StateMsg(state) \in S
        BY <1>1, <1>2, <1>3, DownAdded
    <2> QED
        BY <1>3, <2>1, OneFacts, RepliesApart DEF CheckInDown, StateDown
<1>5. /\ CheckInUp(s)' <=> CheckInUp(s)
      /\ MatchUp(s)' <=> MatchUp(s)
      /\ StateUp(s)
      /\ \A S, T : Followed(up[s], S, T) => Followed(up'[s], S, T)
    <2>1. /\ \A S : Has(up[s], S) <=> StateRequest \in S \/ Has(up'[s], S)
          /\ \A S, T : Followed(up[s], S, T) => Followed(up'[s], S, T)
        BY <1>1, UpTaken
    <2> QED
        BY <2>1, OneFacts, MessagesApart DEF CheckInUp, StateUp, MatchUp
<1>6. UpSame(t) /\ DownSame(t)
    BY <1>1, UpUnchanged, DownUnchanged
<1>7. /\ phase' = phase /\ got' = got /\ view' = view
      /\ checkedIn' = checkedIn /\ delivered' = delivered
    BY <1>1 DEF clientVars, serverVars
<1>8. /\ Settled(s)' <=> Settled(s)
      /\ Settled(t)' <=> Settled(t)
      /\ \A x : Learned(s, x)' <=> Learned(s, x)
      /\ \A x : Learned(t, x)' <=> Learned(t, x)
    BY <1>4, <1>5, <1>6, <1>7 DEF Settled, Learned, UpSame, DownSame
<1>9. AsksInv(s)' /\ AsksInv(t)'
    BY <1>4, <1>5, <1>6, <1>7 DEF IntroInv, AsksInv, UpSame, DownSame
<1>10. ToldInv(s)' /\ ToldInv(t)'
    BY <1>5, <1>6, <1>7, <1>8 DEF IntroInv, ToldInv, UpSame
<1> QED
    BY <1>9, <1>10 DEF IntroInv

LEMMA MatchIntro ==
    ASSUME TypeInv, NEW s \in Seat, NEW t \in Seat, t = Other(s), s = Other(t), Both,
           IntroInv(s), IntroInv(t), HandleNewMatch(s)
    PROVE  IntroInv(s)' /\ IntroInv(t)'
<1>1. /\ up[s] # <<>> /\ Head(up[s]) = MatchRequest
      /\ up'[s] = Tail(up[s]) /\ up'[t] = up[t]
      /\ ~delivered'[s][t] /\ ~delivered'[t][s]
      /\ UNCHANGED <<seated, checkedIn, down, clientVars>>
    BY MatchRequestTaken
<1>2. /\ CheckInUp(s)'
      /\ StateUp(s)'
      /\ MatchUp(s) /\ (MatchUp(s)' => MatchUp(s))
      /\ \A S, T : Followed(up[s], S, T) => Followed(up'[s], S, T)
    <2>1. /\ \A S : Has(up[s], S) <=> MatchRequest \in S \/ Has(up'[s], S)
          /\ \A S, T : Followed(up[s], S, T) =>
                Followed(up'[s], S, T) /\ (MatchRequest \in S => Has(up'[s], T))
        BY <1>1, UpTaken
    <2> QED
        BY <2>1, OneFacts DEF CheckInUp, StateUp, MatchUp, IntroInv, AsksInv
<1>3. UpSame(t) /\ DownSame(t) /\ DownSame(s)
    BY <1>1, UpUnchanged, DownUnchanged
<1>4. phase' = phase /\ got' = got /\ view' = view /\ checkedIn' = checkedIn
    BY <1>1 DEF clientVars
<1>5. /\ ~Settled(s)'
      /\ Settled(t)' <=> Settled(t)
      /\ \A x : Learned(s, x)' <=> Learned(s, x)
      /\ \A x : Learned(t, x)' <=> Learned(t, x)
    BY <1>2, <1>3, <1>4 DEF Settled, Learned, UpSame, DownSame
<1>6. AsksInv(s)' /\ AsksInv(t)'
    BY <1>2, <1>3, <1>4 DEF IntroInv, AsksInv, UpSame, DownSame
<1>7. ToldInv(s)' /\ ToldInv(t)'
    BY <1>1, <1>4, <1>5 DEF IntroInv, ToldInv
<1> QED
    BY <1>6, <1>7 DEF IntroInv

\* A write, a roll, a refused message: nothing to the introductions.
LEMMA NoiseIntro ==
    ASSUME TypeInv, NEW s \in Seat, NEW t \in Seat, t = Other(s), s = Other(t), Both,
           IntroInv(s), IntroInv(t),
           RefuseCheckIn(s) \/ HandleTransaction(s) \/ HandleRollRequest(s)
    PROVE  IntroInv(s)' /\ IntroInv(t)'
<1>1. s # t /\ (\A x \in Seat : x = s \/ x = t) /\ seated[s] /\ seated[t]
    BY SeatFacts DEF Both, TypeInv, ServerType
<1>2. SUFFICES /\ UpSame(s) /\ UpSame(t) /\ DownSame(s) /\ DownSame(t)
               /\ UNCHANGED <<checkedIn, delivered, clientVars>>
    <2>1. phase' = phase /\ got' = got /\ view' = view /\ checkedIn' = checkedIn /\ delivered' = delivered
        BY <1>2 DEF clientVars
    <2> QED
        BY <1>2, <2>1, IntroKept
<1>3. CASE RefuseCheckIn(s)
    <2>1. /\ up[s] # <<>> /\ Head(up[s]) = CheckIn(FALSE)
          /\ up'[s] = Tail(up[s]) /\ up'[t] = up[t]
          /\ UNCHANGED <<seated, serverVars, down, clientVars>>
        BY <1>3, CheckInRefused
    <2>2. Head(up[s]) \in Noise(s)
        BY <2>1 DEF Noise
    <2> QED
        BY <2>1, <2>2, NoiseTaken, UpUnchanged, DownUnchanged DEF serverVars
<1>4. CASE HandleTransaction(s)
    <2>1. /\ up[s] # <<>> /\ up'[s] = Tail(up[s]) /\ up'[t] = up[t]
          /\ UNCHANGED <<checkedIn, delivered, clientVars>>
          /\ \/ Head(up[s]) = Refused(s) /\ UNCHANGED <<state, down>>
             \/ /\ Head(up[s]) \in Writes(s)
                /\ down'[s] = down[s] /\ down'[t] = down[t] \o <<Head(up[s])>>
        BY <1>1, <1>4, TransactionTaken
    <2>2. Head(up[s]) \in Noise(s)
        BY <2>1 DEF Noise
    <2>3. DownSame(s)
        BY <2>1, DownUnchanged
    <2>4. DownSame(t)
        <3>1. CASE down' = down
            BY <3>1, DownUnchanged
        <3>2. CASE Head(up[s]) \in Writes(s) /\ down'[t] = down[t] \o <<Head(up[s])>>
            <4>1. Head(up[s]) \in DownMsg(t)
                BY <3>2, MessagesTyped
            <4> QED
                BY <3>2, <4>1, ReplyAdded, RepliesApart
        <3> QED
            BY <2>1, <3>1, <3>2
    <2> QED
        BY <2>1, <2>2, <2>3, <2>4, NoiseTaken, UpUnchanged
<1>5. CASE HandleRollRequest(s)
    <2>1. /\ up[s] # <<>> /\ Head(up[s]) = RollRequest
          /\ up'[s] = Tail(up[s]) /\ up'[t] = up[t]
          /\ UNCHANGED <<checkedIn, delivered, clientVars>>
        BY <1>5, RollTaken
    <2>2. PICK d \in Die : \A x \in Seat : seated[x] => down'[x] = down[x] \o <<DiceMsg(s, d)>>
        BY <1>5, RollTaken
    <2>3. Head(up[s]) \in Noise(s)
        BY <2>1 DEF Noise
    <2>4. DiceMsg(s, d) \in DiceMsgs(s) /\ \A x \in Seat : DiceMsg(s, d) \in DownMsg(x)
        BY MessagesTyped DEF DiceMsgs
    <2>5. DownSame(s) /\ DownSame(t)
        BY <1>1, <2>2, <2>4, ReplyAdded, RepliesApart
    <2> QED
        BY <2>1, <2>3, <2>5, NoiseTaken, UpUnchanged
<1> QED
    BY <1>3, <1>4, <1>5

LEMMA SaidIntro ==
    ASSUME TypeInv, NEW s \in Seat, NEW t \in Seat, t = Other(s), s = Other(t), Both,
           IntroInv(s), IntroInv(t),
           NEW m \in Noise(s), up'[s] = up[s] \o <<m>>, up'[t] = up[t],
           UNCHANGED <<seated, serverVars, down, phase, got>>,
           view'[t] = view[t], view'[s] = view[s] \/ phase[s] = "play"
    PROVE  IntroInv(s)' /\ IntroInv(t)'
<1>1. UpSame(s) /\ UpSame(t)
    BY NoiseAdded, UpUnchanged
<1>2. DownSame(s) /\ DownSame(t)
    BY DownUnchanged
<1>3. checkedIn' = checkedIn /\ delivered' = delivered /\ phase' = phase /\ got' = got
    BY DEF serverVars
<1> QED
    BY <1>1, <1>2, <1>3, IntroKept

\* What a client says when it begins a match.
LEMMA IntroductionFacts ==
    ASSUME NEW s \in Seat, NEW r \in {Introduction, <<MatchRequest>> \o Introduction}
    PROVE  /\ r \in Seq(UpMsg(s))
           /\ Has(r, One(CheckIn(TRUE))) /\ Has(r, One(StateRequest))
           /\ Has(r, One(MatchRequest)) <=> r = <<MatchRequest>> \o Introduction
           /\ \A S : Has(r, S) =>
                CheckIn(TRUE) \in S \/ StateRequest \in S \/ MatchRequest \in S
           /\ Once(r, One(StateRequest))
           /\ Followed(r, One(MatchRequest), One(CheckIn(TRUE)))
           /\ Followed(r, One(MatchRequest), One(StateRequest))
<1> DEFINE a == CheckIn(TRUE)
           b == StateRequest
           f == MatchRequest
           q == Introduction
           p == <<f>> \o q
           M == UpMsg(s)
<1>1. a # b /\ a # f /\ b # f
    BY MessagesApart
<1>2. q \in Seq(M) /\ <<f>> \in Seq(M) /\ p \in Seq(M) /\ q = <<a, b>>
    BY IntroductionTyped
<1>3. a \in M /\ b \in M /\ f \in M
    BY MessagesTyped
<1>4. r \in {q, p}
    OBVIOUS
<1>5. \A m, k : m \in One(k) <=> m = k
    BY OneFacts
<1> HIDE DEF a, b, f, q, M
<1>6. /\ \A S : Has(q, S) <=> a \in S \/ b \in S
      /\ Once(q, One(b))
      /\ Followed(q, One(f), One(a)) /\ Followed(q, One(f), One(b))
    <2>1. DOMAIN q = {1, 2} /\ q[1] = a /\ q[2] = b
        BY <1>2
    <2> QED
        BY <1>1, <1>5, <2>1 DEF Has, Once, Followed
<1>7. /\ \A S : (Has(<<f>>, S) <=> f \in S) /\ Once(<<f>>, S)
      /\ \A S, T : Followed(<<f>>, S, T) <=> f \notin S
    BY <1>3, OneMessage
<1>8. /\ \A S : Has(p, S) <=> Has(<<f>>, S) \/ Has(q, S)
      /\ \A S : Once(q, S) /\ ~Has(<<f>>, S) => Once(p, S)
      /\ \A S, T : (Followed(<<f>>, S, T) \/ Has(q, T)) /\ Followed(q, S, T) => Followed(p, S, T)
    BY <1>2, Appended
<1> HIDE DEF p
<1>9. /\ Has(q, One(a)) /\ Has(q, One(b)) /\ ~Has(q, One(f))
      /\ Has(p, One(a)) /\ Has(p, One(b)) /\ Has(p, One(f))
      /\ \A S : Has(p, S) => a \in S \/ b \in S \/ f \in S
      /\ Once(p, One(b))
      /\ Followed(p, One(f), One(a)) /\ Followed(p, One(f), One(b))
    BY <1>1, <1>5, <1>6, <1>7, <1>8
<1>10. /\ r \in Seq(M)
       /\ Has(r, One(a)) /\ Has(r, One(b))
       /\ Has(r, One(f)) <=> r = p
       /\ \A S : Has(r, S) => a \in S \/ b \in S \/ f \in S
       /\ Once(r, One(b))
       /\ Followed(r, One(f), One(a)) /\ Followed(r, One(f), One(b))
    BY <1>2, <1>4, <1>6, <1>9
<1> QED
    BY <1>10 DEF a, b, f, q, p, M

LEMMA IntroductionSaid ==
    ASSUME TypeInv, NEW s \in Seat, NEW r \in {Introduction, <<MatchRequest>> \o Introduction},
           up'[s] = up[s] \o r
    PROVE  /\ CheckInUp(s)' /\ StateUp(s)'
           /\ MatchUp(s)' <=> MatchUp(s) \/ r = <<MatchRequest>> \o Introduction
           /\ Followed(up'[s], One(MatchRequest), One(CheckIn(TRUE)))
           /\ Followed(up'[s], One(MatchRequest), One(StateRequest))
<1> DEFINE q == up[s]
           c == up'[s]
           M == UpMsg(s)
<1>1. q \in Seq(M) /\ c = q \o r
    BY DEF TypeInv, UpType
<1>2. /\ r \in Seq(M)
      /\ Has(r, One(CheckIn(TRUE))) /\ Has(r, One(StateRequest))
      /\ Has(r, One(MatchRequest)) <=> r = <<MatchRequest>> \o Introduction
      /\ Followed(r, One(MatchRequest), One(CheckIn(TRUE)))
      /\ Followed(r, One(MatchRequest), One(StateRequest))
    BY IntroductionFacts
<1> HIDE DEF q, c, M
<1>3. /\ \A S : Has(c, S) <=> Has(q, S) \/ Has(r, S)
      /\ \A S, T : (Followed(q, S, T) \/ Has(r, T)) /\ Followed(r, S, T) => Followed(c, S, T)
    BY <1>1, <1>2, Appended
<1> QED
    BY <1>2, <1>3 DEF q, c, CheckInUp, StateUp, MatchUp

LEMMA BeginIntro ==
    ASSUME TypeInv, NEW s \in Seat, NEW t \in Seat, t = Other(s), s = Other(t), Both,
           IntroInv(s), IntroInv(t), Join(s) \/ NewMatch(s)
    PROVE  IntroInv(s)' /\ IntroInv(t)'
<1>1. s # t /\ DOMAIN phase = Seat /\ DOMAIN got = Seat /\ DOMAIN view = Seat
    BY SeatFacts DEF TypeInv, ClientType
<1>2. /\ up'[t] = up[t] /\ UNCHANGED <<serverVars, down>>
      /\ phase' = [phase EXCEPT ![s] = "join"]
      /\ \/ /\ phase[s] = "out" /\ up'[s] = up[s] \o Introduction
            /\ got' = got /\ view' = view
         \/ /\ phase[s] = "play" /\ up'[s] = up[s] \o (<<MatchRequest>> \o Introduction)
            /\ got' = [got EXCEPT ![s] = {}] /\ view' = [view EXCEPT ![s] = NoView]
    <2>1. CASE Join(s)
        BY <2>1, Joined
    <2>2. CASE NewMatch(s)
        BY <2>2, MatchAsked
    <2> QED
        BY <2>1, <2>2
<1>3. /\ phase'[s] = "join" /\ phase'[t] = phase[t]
      /\ got'[t] = got[t] /\ view'[t] = view[t]
      /\ checkedIn' = checkedIn /\ delivered' = delivered
    BY <1>1, <1>2 DEF serverVars
<1>4. UpSame(t) /\ DownSame(s) /\ DownSame(t)
    BY <1>2, UpUnchanged, DownUnchanged
<1>5. /\ CheckInUp(s)' /\ StateUp(s)'
      /\ Followed(up'[s], One(MatchRequest), One(CheckIn(TRUE)))
      /\ Followed(up'[s], One(MatchRequest), One(StateRequest))
      /\ phase[s] = "play" => MatchUp(s)'
      /\ MatchUp(s) => MatchUp(s)'
    BY <1>2, IntroductionSaid
<1>6. AsksInv(s)' /\ AsksInv(t)'
    BY <1>3, <1>4, <1>5 DEF IntroInv, AsksInv, UpSame, DownSame
<1>7. /\ ~Settled(s)'
      /\ Settled(t)' => Settled(t)
      /\ \A x : Learned(t, x)' <=> Learned(t, x)
    BY <1>3, <1>4, <1>5 DEF Settled, Learned, UpSame, DownSame
<1>8. ToldInv(t)'
    BY <1>3, <1>4, <1>7 DEF IntroInv, ToldInv, UpSame
<1>9. ToldInv(s)'
    <2>1. CASE phase[s] = "out"
        <3>1. got' = got /\ view' = view
            BY <1>2, <2>1
        <3>2. \A x : Learned(s, x)' <=> Learned(s, x)
            BY <1>4, <3>1 DEF Learned, DownSame
        <3>3. s \notin got[s]
            BY <2>1 DEF IntroInv, ToldInv, Learned
        <3> QED
            BY <1>3, <1>5, <1>7, <3>1, <3>2, <3>3 DEF IntroInv, ToldInv
    <2>2. CASE phase[s] = "play"
        <3>1. view'[s] = NoView
            BY <1>1, <1>2, <2>2
        <3> QED
            BY <1>3, <1>5, <1>7, <2>2, <3>1 DEF ToldInv
    <2> QED
        BY <1>2, <2>1, <2>2
<1> QED
    BY <1>6, <1>8, <1>9 DEF IntroInv

LEMMA AgainIntro ==
    ASSUME TypeInv, NEW s \in Seat, NEW t \in Seat, t = Other(s), s = Other(t), Both,
           IntroInv(s), IntroInv(t), CheckInAgain(s)
    PROVE  IntroInv(s)' /\ IntroInv(t)'
<1>1. /\ phase[s] = "join" /\ up'[s] = up[s] \o <<CheckIn(TRUE)>> /\ up'[t] = up[t]
      /\ UNCHANGED <<seated, serverVars, down, clientVars>>
    BY CheckedInAgain
<1>2. phase' = phase /\ got' = got /\ view' = view /\ checkedIn' = checkedIn /\ delivered' = delivered
    BY <1>1 DEF clientVars, serverVars
<1>3. /\ CheckInUp(s)'
      /\ StateUp(s)' <=> StateUp(s)
      /\ MatchUp(s)' <=> MatchUp(s)
      /\ \A T : Followed(up[s], One(MatchRequest), T) => Followed(up'[s], One(MatchRequest), T)
    <2>1. CheckIn(TRUE) \in UpMsg(s)
        BY MessagesTyped
    <2>2. /\ \A S : Has(up'[s], S) <=> Has(up[s], S) \/ CheckIn(TRUE) \in S
          /\ \A S, T : Followed(up[s], S, T) /\ CheckIn(TRUE) \notin S => Followed(up'[s], S, T)
        BY <1>1, <2>1, UpAdded
    <2> QED
        BY <2>2, OneFacts, MessagesApart DEF CheckInUp, StateUp, MatchUp
<1>4. UpSame(t) /\ DownSame(s) /\ DownSame(t)
    BY <1>1, UpUnchanged, DownUnchanged
<1>5. AsksInv(s)' /\ AsksInv(t)'
    BY <1>1, <1>2, <1>3, <1>4 DEF IntroInv, AsksInv, UpSame, DownSame
<1>6. /\ ~Settled(s)'
      /\ Settled(t)' <=> Settled(t)
      /\ \A x : Learned(s, x)' <=> Learned(s, x)
      /\ \A x : Learned(t, x)' <=> Learned(t, x)
    BY <1>2, <1>3, <1>4 DEF Settled, Learned, UpSame, DownSame
<1>7. ToldInv(s)' /\ ToldInv(t)'
    BY <1>1, <1>2, <1>3, <1>4, <1>6 DEF IntroInv, ToldInv, UpSame
<1> QED
    BY <1>5, <1>7 DEF IntroInv

LEMMA ReceiveIntro ==
    ASSUME TypeInv, NEW s \in Seat, NEW t \in Seat, t = Other(s), s = Other(t), Both,
           IntroInv(s), IntroInv(t), Receive(s)
    PROVE  IntroInv(s)' /\ IntroInv(t)'
<1> DEFINE h == Head(down[s])
<1>1. /\ down[s] # <<>> /\ h \in DownMsg(s)
      /\ down'[s] = Tail(down[s]) /\ down'[t] = down[t]
      /\ UNCHANGED <<serverVars, up>>
      /\ got'[t] = got[t] /\ view'[t] = view[t] /\ phase'[t] = phase[t]
    BY Received
<1>2. /\ \A x \in Seat : h = CheckInOf(x) => got'[s] = got[s] \cup {x}
      /\ (\A x \in Seat : h # CheckInOf(x)) => got'[s] = got[s]
    BY Received
<1>3. /\ \A st \in States : h = StateMsg(st) => view'[s] = st
      /\ h \in Writes(t) =>
           view'[s] = IF view[s] = NoView THEN NoView ELSE ApplyAll(view[s], h.items)
      /\ h \notin StateMsgs \cup Writes(t) => view'[s] = view[s]
      /\ phase'[s] = IF phase[s] = "join" /\ got'[s] = Seat /\ view'[s] # NoView
                     THEN "play" ELSE phase[s]
    BY Received
<1>4. checkedIn' = checkedIn /\ delivered' = delivered
    BY <1>1 DEF serverVars
<1>5. \A S : Has(down[s], S) <=> h \in S \/ Has(down'[s], S)
    BY <1>1, DownTaken
<1>6. s # t /\ \A x \in Seat : x = s \/ x = t
    BY SeatFacts
<1> HIDE DEF h
<1>7. \A x \in Seat : Learned(s, x)' <=> Learned(s, x)
    <2> SUFFICES ASSUME NEW x \in Seat PROVE Learned(s, x)' <=> Learned(s, x)
        OBVIOUS
    <2>1. CheckInDown(s, x) <=> h = CheckInOf(x) \/ CheckInDown(s, x)'
        BY <1>5, OneFacts DEF CheckInDown
    <2>2. CASE h = CheckInOf(x)
        BY <1>2, <2>1, <2>2 DEF Learned
    <2>3. CASE h # CheckInOf(x)
        <3>1. x \in got'[s] <=> x \in got[s]
            <4>1. CASE \E y \in Seat : h = CheckInOf(y)
                <5>1. PICK y \in Seat : h = CheckInOf(y)
                    BY <4>1
                <5>2. y # x /\ got'[s] = got[s] \cup {y}
                    BY <1>2, <2>3, <5>1
                <5> QED
                    BY <5>2
            <4>2. CASE \A y \in Seat : h # CheckInOf(y)
                BY <1>2, <4>2
            <4> QED
                BY <4>1, <4>2
        <3> QED
            BY <2>1, <2>3, <3>1 DEF Learned
    <2> QED
        BY <2>2, <2>3
<1>8. StateDown(s) \/ view[s] # NoView => StateDown(s)' \/ view'[s] # NoView
    <2>1. StateDown(s) <=> h \in StateMsgs \/ StateDown(s)'
        BY <1>5 DEF StateDown
    <2>2. CASE h \in StateMsgs
        <3>1. PICK st \in States : h = StateMsg(st)
            BY <2>2 DEF StateMsgs
        <3>2. view'[s] \in States
            BY <1>3, <3>1
        <3> QED
            BY <3>2, StateFacts
    <2>3. CASE h \notin StateMsgs /\ view[s] # NoView
        <3>1. view[s] \in States
            BY <2>3 DEF TypeInv, ClientType
        <3>2. h \in Writes(t) => ApplyAll(view[s], h.items) \in States
            BY <3>1, Applied
        <3>3. view'[s] \in States
            BY <1>3, <2>3, <3>1, <3>2
        <3> QED
            BY <3>3, StateFacts
    <2> QED
        BY <2>1, <2>2, <2>3
<1>9. UpSame(s) /\ UpSame(t) /\ DownSame(t)
    BY <1>1, UpUnchanged, DownUnchanged
<1>10. /\ phase'[s] = "out" <=> phase[s] = "out"
       /\ phase'[s] = "join" => phase[s] = "join" /\ ~(got'[s] = Seat /\ view'[s] # NoView)
    BY <1>3
<1>11. /\ Settled(s)' <=> Settled(s)
       /\ Settled(t)' <=> Settled(t)
       /\ \A x : Learned(t, x)' <=> Learned(t, x)
    BY <1>1, <1>9, <1>10 DEF Settled, Learned, UpSame, DownSame
<1>12. AsksInv(s)'
    BY <1>8, <1>9, <1>10 DEF IntroInv, AsksInv, UpSame
<1>13. AsksInv(t)'
    BY <1>1, <1>9 DEF IntroInv, AsksInv, UpSame, DownSame
<1>14. ToldInv(s)'
    BY <1>4, <1>7, <1>9, <1>10, <1>11 DEF IntroInv, ToldInv, UpSame
<1>15. ToldInv(t)'
    BY <1>1, <1>4, <1>9, <1>11 DEF IntroInv, ToldInv, UpSame
<1> QED
    BY <1>12, <1>13, <1>14, <1>15 DEF IntroInv

LEMMA ServerIntro ==
    ASSUME TypeInv, NEW s \in Seat, NEW t \in Seat, t = Other(s), s = Other(t), Both,
           IntroInv(s), IntroInv(t), HandleMessage(s)
    PROVE  IntroInv(s)' /\ IntroInv(t)'
<1>1. CASE HandleCheckIn(s)
    BY <1>1, CheckInIntro
<1>2. CASE RefuseCheckIn(s) \/ HandleTransaction(s) \/ HandleRollRequest(s)
    BY <1>2, NoiseIntro
<1>3. CASE HandleGameStateRequest(s)
    BY <1>3, StateIntro
<1>4. CASE HandleNewMatch(s)
    BY <1>4, MatchIntro
<1> QED
    BY <1>1, <1>2, <1>3, <1>4 DEF HandleMessage

\* Whoever writes makes one of the writes.
LEMMA WritesMade ==
    ASSUME NEW s \in Seat, Begin(s) \/ Move(s) \/ EndMatch(s)
    PROVE  /\ MyTurn(s)
           /\ \E w \in Writes(s) :
                /\ SendTransaction(s, w.items)
                /\ w = BeginTx => Stage(view[s]) = "notInit"
                /\ w \in Moves(s) =>
                     \/ Stage(view[s]) = "move"
                     \/ Stage(view[s]) = "initialRoll" /\ \A y \in Seat : dice[s][y] # -1
                /\ w = EndTx => Stage(view[s]) = "move"
<1>1. MyTurn(s)
    BY DEF Begin, Move, EndMatch
<1>2. CASE Begin(s)
    <2>1. SendTransaction(s, BeginTx.items) /\ Stage(view[s]) = "notInit"
        BY <1>2, WriteFacts DEF Begin, IsIn, Stage
    <2> QED
        BY <1>1, <2>1, WriteFacts, WritesDiffer
<1>3. CASE Move(s)
    <2>1. /\ \/ Stage(view[s]) = "move"
             \/ Stage(view[s]) = "initialRoll" /\ \A y \in Seat : dice[s][y] # -1
          /\ \E points \in 0 .. 1 : SendTransaction(s, MoveTx(s, points).items)
        BY <1>3, WriteFacts DEF Move, IsIn, Stage
    <2>2. PICK points \in {0, 1} : SendTransaction(s, MoveTx(s, points).items)
        BY <2>1
    <2>3. /\ MoveTx(s, points) \in Writes(s)
          /\ MoveTx(s, points) # BeginTx /\ MoveTx(s, points) # EndTx
        BY WriteFacts, WritesDiffer DEF Moves
    <2> QED
        BY <1>1, <2>1, <2>2, <2>3
<1>4. CASE EndMatch(s)
    <2>1. SendTransaction(s, EndTx.items) /\ Stage(view[s]) = "move"
        BY <1>4, WriteFacts DEF EndMatch, IsIn, Stage
    <2> QED
        BY <1>1, <2>1, WriteFacts, WritesDiffer
<1> QED
    BY <1>2, <1>3, <1>4

LEMMA ClientIntro ==
    ASSUME TypeInv, NEW s \in Seat, NEW t \in Seat, t = Other(s), s = Other(t), Both,
           IntroInv(s), IntroInv(t), Client(s), ~Leave(s)
    PROVE  IntroInv(s)' /\ IntroInv(t)'
<1>1. CASE Join(s) \/ NewMatch(s)
    BY <1>1, BeginIntro
<1>2. CASE CheckInAgain(s)
    BY <1>2, AgainIntro
<1>3. CASE Garbage(s)
    <2>1. /\ up'[t] = up[t] /\ UNCHANGED <<seated, serverVars, down, clientVars>>
          /\ \E m \in {CheckIn(FALSE), Refused(s)} : up'[s] = up[s] \o <<m>>
        BY <1>3, GarbageSaid
    <2>2. PICK m \in Noise(s) : up'[s] = up[s] \o <<m>>
        BY <2>1 DEF Noise
    <2> QED
        BY <2>1, <2>2, SaidIntro DEF clientVars
<1>4. CASE Begin(s) \/ Move(s) \/ EndMatch(s)
    <2>1. PICK w \in Writes(s) : SendTransaction(s, w.items)
        BY <1>4, WritesMade
    <2>2. MyTurn(s)
        BY <1>4, WritesMade
    <2>3. /\ phase[s] = "play" /\ up'[s] = up[s] \o <<w>> /\ up'[t] = up[t]
          /\ view' = [view EXCEPT ![s] = ApplyAll(view[s], w.items)]
          /\ UNCHANGED <<seated, serverVars, down, phase, got>>
        BY <2>1, <2>2, Written
    <2>4. w \in Noise(s) /\ s # t /\ DOMAIN view = Seat
        BY SeatFacts DEF Noise, TypeInv, ClientType
    <2>5. view'[t] = view[t]
        BY <2>3, <2>4
    <2> QED
        BY <2>3, <2>4, <2>5, SaidIntro
<1>5. CASE Roll(s)
    <2>1. /\ up'[s] = up[s] \o <<RollRequest>> /\ up'[t] = up[t]
          /\ UNCHANGED <<seated, serverVars, down, clientVars>>
        BY <1>5, RollAsked
    <2>2. RollRequest \in Noise(s)
        BY DEF Noise
    <2> QED
        BY <2>1, <2>2, SaidIntro DEF clientVars
<1>6. CASE Receive(s)
    BY <1>6, ReceiveIntro
<1> QED
    BY <1>1, <1>2, <1>3, <1>4, <1>5, <1>6 DEF Client

\* Who has gone does not come back.
LEMMA GoneForGood ==
    ASSUME TypeInv, [Next]_vars, Both'
    PROVE  Both /\ \A s \in Seat : ~Leave(s)
<1>1. \A s \in Seat : ~Leave(s)
    BY Left DEF Both
<1>2. CASE UNCHANGED vars
    BY <1>1, <1>2 DEF Both, vars, clientVars
<1>3. ASSUME NEW s \in Seat, HandleMessage(s) PROVE Both
    <2>1. phase' = phase
        BY <1>3 DEF HandleMessage, HandleCheckIn, RefuseCheckIn, HandleGameStateRequest,
                    HandleTransaction, HandleRollRequest, HandleNewMatch, clientVars
    <2> QED
        BY <2>1 DEF Both
<1>4. ASSUME NEW s \in Seat, Client(s) PROVE Both
    <2>1. CASE Join(s) \/ NewMatch(s)
        <3>1. phase[s] \in {"out", "play"} /\ phase' = [phase EXCEPT ![s] = "join"]
            BY <2>1 DEF Join, NewMatch, IsIn
        <3>2. DOMAIN phase = Seat
            BY DEF TypeInv, ClientType
        <3>3. \A x \in Seat : x # s => phase'[x] = phase[x]
            BY <3>1, <3>2
        <3> QED
            BY <3>1, <3>3 DEF Both
    <2>2. CASE CheckInAgain(s) \/ Garbage(s) \/ Begin(s) \/ Move(s) \/ EndMatch(s) \/ Roll(s)
        <3>1. phase' = phase
            BY <2>2 DEF CheckInAgain, Garbage, Begin, Move, EndMatch, Roll, SendTransaction, clientVars
        <3> QED
            BY <3>1 DEF Both
    <2>3. CASE Receive(s)
        <3> DEFINE t == Other(s)
        <3>1. t \in Seat /\ s = Other(t) /\ \A x \in Seat : x = s \/ x = t
            BY SeatFacts
        <3>2. /\ phase'[t] = phase[t]
              /\ phase'[s] = IF phase[s] = "join" /\ got'[s] = Seat /\ view'[s] # NoView
                             THEN "play" ELSE phase[s]
            BY <2>3, <3>1, Received
        <3>3. phase[s] = "gone" => phase'[s] = "gone"
            BY <3>2
        <3> QED
            BY <3>1, <3>2, <3>3 DEF Both
    <2> QED
        BY <1>1, <1>4, <2>1, <2>2, <2>3 DEF Client
<1> QED
    BY <1>1, <1>2, <1>3, <1>4 DEF Next

LEMMA IntroducedKept == TypeInv /\ Introduced /\ [Next]_vars => Introduced'
<1> SUFFICES ASSUME TypeInv, Introduced, [Next]_vars, Both' PROVE \A s \in Seat : IntroInv(s)'
    BY DEF Introduced
<1>1. Both /\ (\A s \in Seat : IntroInv(s)) /\ \A s \in Seat : ~Leave(s)
    BY GoneForGood DEF Introduced
<1>2. CASE UNCHANGED vars
    <2> SUFFICES ASSUME NEW s \in Seat PROVE IntroInv(s)'
        OBVIOUS
    <2>1. PICK t \in Seat : t = Other(s)
        BY SeatFacts
    <2>2. /\ up' = up /\ down' = down /\ checkedIn' = checkedIn /\ delivered' = delivered
          /\ phase' = phase /\ got' = got /\ view' = view
        BY <1>2 DEF vars, serverVars, clientVars
    <2>3. UpSame(s) /\ UpSame(t) /\ DownSame(s)
        BY <2>2, UpUnchanged, DownUnchanged
    <2> QED
        BY <1>1, <2>1, <2>2, <2>3, IntroKept
<1>3. ASSUME NEW s \in Seat, HandleMessage(s) \/ Client(s) PROVE \A x \in Seat : IntroInv(x)'
    <2>1. PICK t \in Seat : t = Other(s) /\ s = Other(t) /\ \A x \in Seat : x = s \/ x = t
        BY SeatFacts
    <2>2. IntroInv(s) /\ IntroInv(t) /\ ~Leave(s)
        BY <1>1
    <2>3. IntroInv(s)' /\ IntroInv(t)'
        BY <1>1, <1>3, <2>1, <2>2, ServerIntro, ClientIntro
    <2> QED
        BY <2>1, <2>3
<1> QED
    BY <1>2, <1>3 DEF Next

LEMMA IntroducedAtFirst == Init => Introduced
<1> SUFFICES ASSUME Init, NEW s \in Seat PROVE IntroInv(s)
    BY DEF Introduced
<1>1. Other(s) \in Seat
    BY SeatFacts
<1>2. /\ up[s] = <<>> /\ down[s] = <<>> /\ phase[s] = "out" /\ got[s] = {}
      /\ delivered[s][Other(s)] = FALSE
    BY <1>1 DEF Init, NoneOf, Undelivered
<1>3. /\ \A S : ~Has(<<>>, S)
      /\ \A S, T : Followed(<<>>, S, T)
    BY NoMessage
<1>4. AsksInv(s)
    BY <1>2, <1>3 DEF AsksInv, MatchUp, CheckInUp, StateUp
<1>5. ToldInv(s)
    BY <1>2, <1>3 DEF ToldInv, Settled, Learned, CheckInDown
<1> QED
    BY <1>4, <1>5 DEF IntroInv

\* However the clients join, check in again and begin the next match, a client
\* that still waits when nothing is under way waits for one that has not joined
\* (handleCheckIn, handleNewMatch).
THEOREM IntroductionsMade == Spec => []CheckInsComplete
<1>1. TypeInv /\ Introduced => CheckInsComplete
    <2> SUFFICES ASSUME TypeInv, Introduced, Quiet, NEW s \in Seat, phase[s] = "join",
                        phase[Other(s)] # "out"
                 PROVE  FALSE
        BY DEF CheckInsComplete
    <2> DEFINE t == Other(s)
    <2>1. t \in Seat /\ s = Other(t) /\ \A x \in Seat : x = s \/ x = t
        BY SeatFacts
    <2>2. \A x \in Seat : up[x] = <<>> /\ down[x] = <<>> /\ phase[x] # "gone"
        BY DEF Quiet, TypeInv, ServerType
    <2>3. \A x \in Seat : IntroInv(x)
        BY <2>2 DEF Introduced, Both
    <2>4. \A S : ~Has(<<>>, S)
        BY NoMessage
    <2>5. \A x \in Seat : ~CheckInUp(x) /\ ~StateUp(x) /\ ~MatchUp(x) /\ ~StateDown(x)
                          /\ \A y : Learned(x, y) => y \in got[x]
        BY <2>2, <2>4 DEF CheckInUp, StateUp, MatchUp, StateDown, CheckInDown, Learned
    <2> HIDE DEF t
    <2>6. Settled(s) /\ Settled(t)
        BY <2>1, <2>5 DEF Settled, t
    <2>7. s \in got[s] /\ t \in got[s]
        BY <2>3, <2>5, <2>6 DEF IntroInv, ToldInv, t
    <2>8. got[s] = Seat
        BY <2>1, <2>7 DEF TypeInv, ClientType
    <2> QED
        BY <2>3, <2>5, <2>8 DEF IntroInv, AsksInv, ToldInv
<1>2. Init => TypeInv /\ Introduced
    BY TypesAtFirst, IntroducedAtFirst
<1>3. TypeInv /\ Introduced /\ [Next]_vars => (TypeInv /\ Introduced)'
    BY TypesKept, IntroducedKept
<1> QED
    BY <1>1, <1>2, <1>3, PTL DEF Spec

-----------------------------------------------------------------------------
(* The first match *)

LEMMA BeforeTaken ==
    ASSUME NEW M, NEW q \in Seq(M), q # <<>>, NEW S, NEW T, Head(q) \notin T,
           Before(Tail(q), S, T)
    PROVE  Before(q, S, T)
<1> DEFINE r == Tail(q)
           n == Len(q)
<1>1. /\ n \in Nat /\ n >= 1 /\ DOMAIN q = 1 .. n /\ DOMAIN r = 1 .. n - 1
      /\ \A i \in 1 .. n - 1 : r[i] = q[i + 1]
      /\ q[1] = Head(q)
    OBVIOUS
<1> HIDE DEF r, n
<1> SUFFICES ASSUME NEW i \in 1 .. n, NEW j \in 1 .. n, q[i] \in S, q[j] \in T PROVE i < j
    BY <1>1 DEF Before
<1>2. j # 1 /\ j - 1 \in 1 .. n - 1 /\ r[j - 1] \in T
    BY <1>1
<1>3. CASE i = 1
    BY <1>1, <1>2, <1>3
<1>4. CASE i # 1
    <2>1. i - 1 \in 1 .. n - 1 /\ r[i - 1] \in S
        BY <1>1, <1>4
    <2>2. i - 1 < j - 1
        BY <1>1, <1>2, <2>1 DEF Before, r
    <2> QED
        BY <1>1, <2>2
<1> QED
    BY <1>3, <1>4

LEMMA BeforeAdded ==
    ASSUME NEW M, NEW q \in Seq(M), NEW r \in Seq(M), NEW S, NEW T
    PROVE  /\ Before(q \o r, S, T) => Before(q, S, T)
           /\ Has(q, T) /\ Has(r, S) => ~Before(q \o r, S, T)
<1> DEFINE c == q \o r
           m == Len(q)
           n == Len(r)
<1>1. /\ m \in Nat /\ n \in Nat /\ DOMAIN q = 1 .. m /\ DOMAIN r = 1 .. n
      /\ DOMAIN c = 1 .. m + n
    OBVIOUS
<1>2. \A i \in 1 .. m : i \in 1 .. m + n /\ c[i] = q[i]
    OBVIOUS
<1>3. \A i \in 1 .. n : m + i \in 1 .. m + n /\ c[m + i] = r[i]
    OBVIOUS
<1> HIDE DEF c, m, n
<1>4. Before(c, S, T) => Before(q, S, T)
    BY <1>1, <1>2 DEF Before
<1>5. ASSUME Has(q, T), Has(r, S), Before(c, S, T) PROVE FALSE
    <2>1. PICK j \in 1 .. m : q[j] \in T
        BY <1>1, <1>5 DEF Has
    <2>2. PICK i \in 1 .. n : r[i] \in S
        BY <1>1, <1>5 DEF Has
    <2>3. m + i < j
        BY <1>1, <1>2, <1>3, <1>5, <2>1, <2>2 DEF Before
    <2> QED
        BY <1>1, <2>3
<1> QED
    BY <1>4, <1>5 DEF c

LEMMA HasMember == \A q, S : Has(q, S) <=> \E m \in S : Has(q, One(m))
BY DEF Has, One

LEMMA HasPart == \A q, S, T : S \subseteq T /\ Has(q, S) => Has(q, T)
BY DEF Has

\* A write of s that is under way, to the server or from it to the other.
Writing(s) == WriteUp(s) \/ WriteDown(Other(s))

\* The state s has, or gets; and whether a write under way to it is applied to that.
Holds(s, st) == view[s] = st \/ Has(down[s], One(StateMsg(st)))
Due(s) == WriteDown(s) /\ Before(down[s], StateMsgs, Writes(Other(s)))

\* w was made by s in its turn, from st.
Fits(s, w, st) == Turn(st) = s /\ (w = BeginTx => Stage(st) = "notInit")

\* Nobody asks for a match, and each asks for the state once.
AskOnce(s) ==
    /\ ~MatchUp(s)
    /\ Once(up[s], One(StateRequest)) /\ Once(down[s], StateMsgs)
    /\ StateUp(s) => view[s] = NoView /\ ~StateDown(s)
    /\ StateDown(s) => view[s] = NoView
    /\ phase[s] = "out" => ~StateUp(s) /\ ~StateDown(s) /\ view[s] = NoView

\* Of all the writes of the two one is under way.
WriteOnce(s) ==
    /\ Once(up[s], Writes(s)) /\ Once(down[Other(s)], Writes(s))
    /\ WriteUp(s) => ~WriteDown(Other(s)) /\ view[s] # NoView
    /\ Writing(s) => ~Writing(Other(s))
    /\ WriteDown(Other(s)) => Stage(state) # "notInit"

\* The states of the two are a write apart.
ViewFits(s) ==
    /\ \A w \in Writes(s) : Has(up[s], One(w)) =>
          view[s] = ApplyAll(state, w.items) /\ Fits(s, w, state)
    /\ \A st \in States : Holds(s, st) /\ ~WriteUp(s) =>
          /\ ~Due(s) => st = state
          /\ Due(s) => \A w \in Writes(Other(s)) : Has(down[s], One(w)) =>
                state = ApplyAll(st, w.items) /\ Fits(Other(s), w, st)

\* A roll is made between the beginning of the match and the first move, once.
RollOnce(s) ==
    /\ Once(up[s], One(RollRequest)) /\ Before(up[s], Writes(s), One(RollRequest))
    /\ RollUp(s) => initialRoll[s] = -1 /\ view[s] # NoView /\ Stage(view[s]) = "initialRoll"
    /\ initialRoll[s] # -1 => view[s] # NoView /\ Stage(view[s]) # "notInit"
    /\ (\E w \in Writes(s) : w # BeginTx /\ Has(up[s], One(w))) \/ Stage(state) \in {"move", "matchOver"}
          => \A y \in Seat : initialRoll[y] # -1

\* A client has each roll, or it is under way to it.
DiceFit(s) ==
    \A y \in Seat :
        /\ Once(down[s], DiceMsgs(y))
        /\ ~DiceDown(s, y) => dice[s][y] = initialRoll[y]
        /\ \A d \in Die : Has(down[s], One(DiceMsg(y, d))) => initialRoll[y] = d /\ dice[s][y] = -1

FirstInv(s) == AskOnce(s) /\ WriteOnce(s) /\ ViewFits(s) /\ RollOnce(s) /\ DiceFit(s)
FirstMatch == Both /\ ~again => \A s \in Seat : FirstInv(s)

\* The same of a kind is under way from s to the server.
AskLike(s) ==
    /\ StateUp(s)' <=> StateUp(s)
    /\ MatchUp(s)' <=> MatchUp(s)
    /\ Once(up[s], One(StateRequest)) => Once(up'[s], One(StateRequest))
WriteUpLike(s) ==
    /\ WriteUp(s)' <=> WriteUp(s)
    /\ \A w \in Writes(s) : Has(up'[s], One(w)) <=> Has(up[s], One(w))
    /\ Once(up[s], Writes(s)) => Once(up'[s], Writes(s))
RollLike(s) ==
    /\ RollUp(s)' <=> RollUp(s)
    /\ Once(up[s], One(RollRequest)) => Once(up'[s], One(RollRequest))
    /\ Before(up[s], Writes(s), One(RollRequest)) => Before(up'[s], Writes(s), One(RollRequest))

\* The same of a kind is under way to s.
StateLike(s) ==
    /\ StateDown(s)' <=> StateDown(s)
    /\ \A st \in States : Has(down'[s], One(StateMsg(st))) <=> Has(down[s], One(StateMsg(st)))
    /\ Once(down[s], StateMsgs) => Once(down'[s], StateMsgs)
WriteDownLike(s) ==
    /\ WriteDown(s)' <=> WriteDown(s)
    /\ \A w \in Writes(Other(s)) : Has(down'[s], One(w)) <=> Has(down[s], One(w))
    /\ Once(down[s], Writes(Other(s))) => Once(down'[s], Writes(Other(s)))
DueLike(s) ==
    Before(down'[s], StateMsgs, Writes(Other(s))) <=> Before(down[s], StateMsgs, Writes(Other(s)))
DiceLike(s) ==
    \A y \in Seat :
        /\ DiceDown(s, y)' <=> DiceDown(s, y)
        /\ Once(down[s], DiceMsgs(y)) => Once(down'[s], DiceMsgs(y))
        /\ \A d \in Die : Has(down'[s], One(DiceMsg(y, d))) <=> Has(down[s], One(DiceMsg(y, d)))

UpLike(s) == AskLike(s) /\ WriteUpLike(s) /\ RollLike(s)
DownLike(s) == StateLike(s) /\ WriteDownLike(s) /\ DueLike(s) /\ DiceLike(s)

LEMMA AskKept ==
    ASSUME NEW s \in Seat, AskOnce(s), AskLike(s), StateLike(s), view'[s] = view[s],
           phase'[s] = "out" => phase[s] = "out"
    PROVE  AskOnce(s)'
BY DEF AskOnce, AskLike, StateLike

LEMMA WriteKept ==
    ASSUME NEW s \in Seat, NEW t \in Seat, t = Other(s), s = Other(t), WriteOnce(s),
           WriteUpLike(s), WriteUpLike(t), WriteDownLike(s), WriteDownLike(t),
           view[s] # NoView => view'[s] # NoView, state' = state
    PROVE  WriteOnce(s)'
<1>1. /\ Writing(s)' <=> Writing(s)
      /\ Writing(t)' <=> Writing(t)
    BY DEF Writing, WriteUpLike, WriteDownLike
<1>2. Stage(state)' = Stage(state)
    BY DEF Stage
<1> QED
    BY <1>1, <1>2 DEF WriteOnce, WriteUpLike, WriteDownLike

LEMMA ViewKept ==
    ASSUME NEW s \in Seat, ViewFits(s), WriteUpLike(s), StateLike(s), WriteDownLike(s), DueLike(s),
           view'[s] = view[s], state' = state
    PROVE  ViewFits(s)'
<1>1. /\ Due(s)' <=> Due(s)
      /\ \A st \in States : Holds(s, st)' <=> Holds(s, st)
    BY DEF Due, Holds, WriteDownLike, StateLike, DueLike
<1>2. \A w : Fits(s, w, state)' <=> Fits(s, w, state)
    BY DEF Fits, Turn, Stage
<1> QED
    BY <1>1, <1>2 DEF ViewFits, WriteUpLike, WriteDownLike

LEMMA RollKept ==
    ASSUME NEW s \in Seat, RollOnce(s), RollLike(s), WriteUpLike(s),
           view'[s] = view[s], state' = state, initialRoll' = initialRoll
    PROVE  RollOnce(s)'
<1>1. Stage(state)' = Stage(state) /\ Stage(view[s])' = Stage(view[s])
    BY DEF Stage
<1> QED
    BY <1>1 DEF RollOnce, RollLike, WriteUpLike

LEMMA DiceKept ==
    ASSUME NEW s \in Seat, DiceFit(s), DiceLike(s), dice'[s] = dice[s], initialRoll' = initialRoll
    PROVE  DiceFit(s)'
BY DEF DiceFit, DiceLike

LEMMA FirstKept ==
    ASSUME NEW s \in Seat, NEW t \in Seat, t = Other(s), s = Other(t), FirstInv(s),
           UpLike(s), UpLike(t), DownLike(s), DownLike(t),
           view'[s] = view[s], dice'[s] = dice[s], state' = state, initialRoll' = initialRoll,
           phase'[s] = "out" => phase[s] = "out"
    PROVE  FirstInv(s)'
<1>1. AskOnce(s)'
    BY AskKept DEF FirstInv, UpLike, DownLike
<1>2. WriteOnce(s)'
    BY WriteKept DEF FirstInv, UpLike, DownLike
<1>3. ViewFits(s)'
    BY ViewKept DEF FirstInv, UpLike, DownLike
<1>4. RollOnce(s)'
    BY RollKept DEF FirstInv, UpLike
<1>5. DiceFit(s)'
    BY DiceKept DEF FirstInv, DownLike
<1> QED
    BY <1>1, <1>2, <1>3, <1>4, <1>5 DEF FirstInv

LEMMA UpStays == ASSUME NEW s \in Seat, up'[s] = up[s] PROVE UpLike(s)
BY DEF UpLike, AskLike, WriteUpLike, RollLike, StateUp, MatchUp, WriteUp, RollUp

LEMMA DownStays == ASSUME NEW s \in Seat, down'[s] = down[s] PROVE DownLike(s)
BY DEF DownLike, StateLike, WriteDownLike, DueLike, DiceLike, StateDown, WriteDown, DiceDown

LEMMA UpLikeTaken ==
    ASSUME TypeInv, NEW s \in Seat, up[s] # <<>>, NEW m, m = Head(up[s]), up'[s] = Tail(up[s])
    PROVE  /\ m # StateRequest /\ m # MatchRequest => AskLike(s)
           /\ m \notin Writes(s) => WriteUpLike(s)
           /\ m # RollRequest => RollLike(s)
<1>1. /\ \A S : Has(up[s], S) <=> m \in S \/ Has(up'[s], S)
      /\ \A S : Once(up[s], S) => Once(up'[s], S)
      /\ \A S, T : Before(up[s], S, T) => Before(up'[s], S, T)
    BY UpTaken
<1>2. m \notin Writes(s) => \A w \in Writes(s) : m \notin One(w)
    BY OneFacts
<1> QED
    BY <1>1, <1>2, OneFacts DEF AskLike, WriteUpLike, RollLike, StateUp, MatchUp, WriteUp, RollUp

LEMMA UpLikeAdded ==
    ASSUME TypeInv, NEW s \in Seat, NEW m \in UpMsg(s), up'[s] = up[s] \o <<m>>
    PROVE  /\ m # StateRequest /\ m # MatchRequest => AskLike(s)
           /\ m \notin Writes(s) => WriteUpLike(s)
           /\ m # RollRequest /\ (m \in Writes(s) => ~RollUp(s)) => RollLike(s)
<1>1. /\ \A S : Has(up'[s], S) <=> Has(up[s], S) \/ m \in S
      /\ \A S : Once(up[s], S) /\ (m \in S => ~Has(up[s], S)) => Once(up'[s], S)
      /\ \A S, T : Before(up[s], S, T) /\ (m \in S => m \notin T /\ ~Has(up[s], T))
            => Before(up'[s], S, T)
    BY UpAdded
<1>2. m \notin Writes(s) => \A w \in Writes(s) : m \notin One(w)
    BY OneFacts
<1> QED
    BY <1>1, <1>2, OneFacts DEF AskLike, WriteUpLike, RollLike, StateUp, MatchUp, WriteUp, RollUp

LEMMA OneOfMany ==
    ASSUME NEW m
    PROVE  /\ m \notin StateMsgs => \A st \in States : m \notin One(StateMsg(st))
           /\ \A y : m \notin DiceMsgs(y) => \A d \in Die : m \notin One(DiceMsg(y, d))
           /\ \A x : m \notin Writes(x) => \A w \in Writes(x) : m \notin One(w)
BY OneFacts DEF StateMsgs, DiceMsgs

LEMMA DownLikeTaken ==
    ASSUME TypeInv, NEW s \in Seat, down[s] # <<>>, NEW m, m = Head(down[s]), down'[s] = Tail(down[s])
    PROVE  /\ m \notin StateMsgs => StateLike(s)
           /\ m \notin Writes(Other(s)) => WriteDownLike(s) /\ DueLike(s)
           /\ (\A y \in Seat : m \notin DiceMsgs(y)) => DiceLike(s)
<1>1. /\ \A S : Has(down[s], S) <=> m \in S \/ Has(down'[s], S)
      /\ \A S : Once(down[s], S) => Once(down'[s], S)
      /\ \A S, T : Before(down[s], S, T) => Before(down'[s], S, T)
    BY DownTaken
<1>2. m \notin StateMsgs => StateLike(s)
    BY <1>1, OneOfMany DEF StateLike, StateDown
<1>3. m \notin Writes(Other(s)) => WriteDownLike(s)
    BY <1>1, OneOfMany DEF WriteDownLike, WriteDown
<1>4. m \notin Writes(Other(s)) => DueLike(s)
    <2>1. down[s] \in Seq(DownMsg(s))
        BY DEF TypeInv, DownType
    <2>2. m \notin Writes(Other(s)) /\ Before(Tail(down[s]), StateMsgs, Writes(Other(s)))
            => Before(down[s], StateMsgs, Writes(Other(s)))
        BY <2>1, BeforeTaken
    <2> QED
        BY <1>1, <2>2 DEF DueLike
<1>5. (\A y \in Seat : m \notin DiceMsgs(y)) => DiceLike(s)
    BY <1>1, OneOfMany DEF DiceLike, DiceDown
<1> QED
    BY <1>2, <1>3, <1>4, <1>5

LEMMA DownLikeAdded ==
    ASSUME TypeInv, NEW s \in Seat, NEW m \in DownMsg(s), down'[s] = down[s] \o <<m>>
    PROVE  /\ m \notin StateMsgs => StateLike(s) /\ DueLike(s)
           /\ m \notin Writes(Other(s)) => WriteDownLike(s)
           /\ (\A y \in Seat : m \notin DiceMsgs(y)) => DiceLike(s)
           /\ m \in StateMsgs /\ WriteDown(s) => ~Before(down'[s], StateMsgs, Writes(Other(s)))
<1>1. /\ \A S : Has(down'[s], S) <=> Has(down[s], S) \/ m \in S
      /\ \A S : Once(down[s], S) /\ (m \in S => ~Has(down[s], S)) => Once(down'[s], S)
      /\ \A S, T : Before(down[s], S, T) /\ (m \in S => m \notin T /\ ~Has(down[s], T))
            => Before(down'[s], S, T)
    BY DownAdded
<1>2. /\ down[s] \in Seq(DownMsg(s)) /\ <<m>> \in Seq(DownMsg(s))
      /\ \A S : Has(<<m>>, S) <=> m \in S
    BY OneMessage DEF TypeInv, DownType
<1>3. /\ Before(down[s] \o <<m>>, StateMsgs, Writes(Other(s)))
            => Before(down[s], StateMsgs, Writes(Other(s)))
      /\ WriteDown(s) /\ Has(<<m>>, StateMsgs)
            => ~Before(down[s] \o <<m>>, StateMsgs, Writes(Other(s)))
    BY <1>2, BeforeAdded DEF WriteDown
<1>4. m \notin StateMsgs => StateLike(s)
    BY <1>1, OneOfMany DEF StateLike, StateDown
<1>5. m \notin Writes(Other(s)) => WriteDownLike(s)
    BY <1>1, OneOfMany DEF WriteDownLike, WriteDown
<1>6. m \notin StateMsgs => DueLike(s)
    BY <1>1, <1>3 DEF DueLike
<1>7. (\A y \in Seat : m \notin DiceMsgs(y)) => DiceLike(s)
    BY <1>1, OneOfMany DEF DiceLike, DiceDown
<1> QED
    BY <1>2, <1>3, <1>4, <1>5, <1>6, <1>7

LEMMA CheckInsLike ==
    ASSUME TypeInv, NEW s \in Seat, NEW r \in Seq({CheckInOf(0), CheckInOf(1)}),
           down'[s] = down[s] \o r
    PROVE  DownLike(s)
<1> DEFINE q == down[s]
           c == down'[s]
<1>1. q \in Seq(DownMsg(s)) /\ c = q \o r
    BY DEF TypeInv, DownType
<1>2. r \in Seq(DownMsg(s))
    <2>1. CheckInOf(0) \in DownMsg(s) /\ CheckInOf(1) \in DownMsg(s)
        BY MessagesTyped
    <2> QED
        BY <2>1
<1>3. ASSUME NEW S, CheckInOf(0) \notin S, CheckInOf(1) \notin S
      PROVE  ~Has(r, S)
    <2>1. \A i \in DOMAIN r : r[i] \in {CheckInOf(0), CheckInOf(1)}
        OBVIOUS
    <2> QED
        BY <1>3, <2>1 DEF Has
<1> HIDE DEF q, c
<1>4. /\ \A S : Has(c, S) <=> Has(q, S) \/ Has(r, S)
      /\ \A S : Once(q, S) /\ ~Has(r, S) => Once(c, S)
      /\ \A S, T : Before(q, S, T) /\ Before(r, S, T) /\ ~(Has(q, T) /\ Has(r, S)) => Before(c, S, T)
      /\ \A S, T : Before(c, S, T) => Before(q, S, T)
    BY <1>1, <1>2, Appended, BeforeAdded
<1>5. /\ CheckInOf(0) \notin StateMsgs /\ CheckInOf(1) \notin StateMsgs
      /\ \A y : /\ CheckInOf(0) \notin DiceMsgs(y) /\ CheckInOf(1) \notin DiceMsgs(y)
                /\ CheckInOf(0) \notin Writes(y) /\ CheckInOf(1) \notin Writes(y)
    BY RepliesApart
<1>6. /\ ~Has(r, StateMsgs) /\ \A st \in States : ~Has(r, One(StateMsg(st)))
      /\ \A y : ~Has(r, Writes(y)) /\ \A w \in Writes(y) : ~Has(r, One(w))
      /\ \A y : ~Has(r, DiceMsgs(y)) /\ \A d \in Die : ~Has(r, One(DiceMsg(y, d)))
    BY <1>3, <1>5, OneOfMany
<1>7. Before(r, StateMsgs, Writes(Other(s)))
    BY <1>6 DEF Before, Has
<1>8. StateLike(s)
    BY <1>4, <1>6 DEF StateLike, StateDown, q, c
<1>9. WriteDownLike(s)
    BY <1>4, <1>6 DEF WriteDownLike, WriteDown, q, c
<1>10. DueLike(s)
    BY <1>4, <1>6, <1>7 DEF DueLike, q, c
<1>11. DiceLike(s)
    BY <1>4, <1>6 DEF DiceLike, DiceDown, q, c
<1> QED
    BY <1>8, <1>9, <1>10, <1>11 DEF DownLike

LEMMA CheckInFirst ==
    ASSUME TypeInv, NEW s \in Seat, NEW t \in Seat, t = Other(s), s = Other(t), Both,
           FirstInv(s), FirstInv(t), HandleCheckIn(s) \/ RefuseCheckIn(s)
    PROVE  FirstInv(s)' /\ FirstInv(t)'
<1>1. SUFFICES /\ UpLike(s) /\ UpLike(t) /\ DownLike(s) /\ DownLike(t)
               /\ UNCHANGED <<state, initialRoll, view, dice, phase>>
    BY <1>1, FirstKept
<1>2. seated[s] /\ seated[t]
    BY DEF Both, TypeInv, ServerType
<1>3. CASE HandleCheckIn(s)
    <2> DEFINE A == CheckInOf(s)
               B == CheckInOf(t)
               C == {CheckInOf(0), CheckInOf(1)}
               learn == checkedIn[t] /\ ~delivered[s][t]
               tell  == seated[t] /\ ~delivered[t][s]
    <2>1. /\ up[s] # <<>> /\ Head(up[s]) = CheckIn(TRUE)
          /\ up'[s] = Tail(up[s]) /\ up'[t] = up[t]
          /\ UNCHANGED <<state, initialRoll, view, dice, phase>>
          /\ down'[s] = down[s] \o (<<A>> \o If(learn, B))
          /\ down'[t] = down[t] \o If(tell, A)
        BY <1>2, <1>3, CheckInTaken DEF clientVars
    <2>2. A \in C /\ B \in C
        BY SeatFacts
    <2> HIDE DEF A, B, C, learn, tell
    <2>3. /\ <<A>> \in Seq(C) /\ <<B>> \in Seq(C) /\ <<>> \in Seq(C)
        BY <2>2
    <2>4. If(tell, A) \in Seq(C) /\ If(learn, B) \in Seq(C)
        BY <2>3 DEF If
    <2>5. <<A>> \o If(learn, B) \in Seq(C)
        BY <2>3, <2>4
    <2>6. DownLike(s) /\ DownLike(t)
        BY <2>1, <2>4, <2>5, CheckInsLike DEF C
    <2>7. UpLike(s)
        BY <2>1, UpLikeTaken, MessagesApart DEF UpLike
    <2> QED
        BY <2>1, <2>6, <2>7, UpStays
<1>4. CASE RefuseCheckIn(s)
    <2>1. /\ up[s] # <<>> /\ Head(up[s]) = CheckIn(FALSE)
          /\ up'[s] = Tail(up[s]) /\ up'[t] = up[t]
          /\ UNCHANGED <<down, state, initialRoll, view, dice, phase>>
        BY <1>4, CheckInRefused DEF serverVars, clientVars
    <2>2. UpLike(s)
        BY <2>1, UpLikeTaken, MessagesApart DEF UpLike
    <2> QED
        BY <2>1, <2>2, UpStays, DownStays
<1> QED
    BY <1>3, <1>4

LEMMA StateFirst ==
    ASSUME TypeInv, NEW s \in Seat, NEW t \in Seat, t = Other(s), s = Other(t), Both,
           FirstInv(s), FirstInv(t), HandleGameStateRequest(s)
    PROVE  FirstInv(s)' /\ FirstInv(t)'
<1> DEFINE m == StateMsg(state)
<1>1. /\ up[s] # <<>> /\ Head(up[s]) = StateRequest
      /\ up'[s] = Tail(up[s]) /\ up'[t] = up[t]
      /\ UNCHANGED <<seated, serverVars, clientVars>>
      /\ down'[t] = down[t]
      /\ seated[s] => down'[s] = down[s] \o <<m>>
    BY StateSent
<1>2. seated[s] /\ state \in States
    BY DEF Both, TypeInv, ServerType
<1>3. m \in DownMsg(s) /\ m \in StateMsgs
    BY <1>2, MessagesTyped DEF StateMsgs
<1>4. UNCHANGED <<state, initialRoll, view, dice, phase>>
    BY <1>1 DEF serverVars, clientVars
<1>5. UpLike(t) /\ DownLike(t)
    BY <1>1, UpStays, DownStays
<1>6. WriteUpLike(s) /\ RollLike(s)
    BY <1>1, UpLikeTaken, MessagesApart
<1>7. /\ StateUp(s)
      /\ ~StateUp(s)'
      /\ MatchUp(s)' => MatchUp(s)
      /\ Once(up'[s], One(StateRequest))
    <2>1. Once(up[s], One(StateRequest))
        BY DEF FirstInv, AskOnce
    <2>2. /\ \A S : Has(up[s], S) <=> StateRequest \in S \/ Has(up'[s], S)
          /\ \A S : Once(up[s], S) => Once(up'[s], S) /\ (StateRequest \in S => ~Has(up'[s], S))
        BY <1>1, UpTaken
    <2> QED
        BY <2>1, <2>2, OneFacts DEF StateUp, MatchUp
<1>8. /\ view[s] = NoView /\ ~StateDown(s) /\ phase[s] # "out" /\ ~MatchUp(s) /\ ~WriteUp(s)
    BY <1>7 DEF FirstInv, AskOnce, WriteOnce
<1>9. WriteDownLike(s) /\ DiceLike(s)
      /\ (WriteDown(s) => ~Before(down'[s], StateMsgs, Writes(t)))
    BY <1>1, <1>2, <1>3, DownLikeAdded, RepliesApart
<1>10. /\ \A S : Has(down'[s], S) <=> Has(down[s], S) \/ m \in S
       /\ Once(down'[s], StateMsgs)
    <2>1. /\ \A S : Has(down'[s], S) <=> Has(down[s], S) \/ m \in S
          /\ \A S : Once(down[s], S) /\ (m \in S => ~Has(down[s], S)) => Once(down'[s], S)
        BY <1>1, <1>2, <1>3, DownAdded
    <2> QED
        BY <1>8, <2>1 DEF FirstInv, AskOnce, StateDown
<1>11. AskOnce(s)'
    BY <1>4, <1>7, <1>8, <1>10 DEF AskOnce
<1>12. WriteOnce(s)' /\ WriteOnce(t)'
    BY <1>4, <1>5, <1>6, <1>9, WriteKept DEF FirstInv, UpLike, DownLike
<1>13. ViewFits(s)'
    <2>1. ~Due(s)' /\ ~WriteUp(s)'
        BY <1>6, <1>8, <1>9 DEF Due, WriteDownLike, WriteUpLike
    <2>2. \A w \in Writes(s) : ~Has(up'[s], One(w))
        BY <2>1, HasMember DEF WriteUp
    <2>3. ASSUME NEW st \in States, Holds(s, st)' PROVE st = state
        <3>1. view'[s] # st
            BY <1>4, <1>8, StateFacts
        <3>2. ~Has(down[s], One(StateMsg(st)))
            BY <1>8, HasMember DEF StateDown, StateMsgs
        <3>3. m \in One(StateMsg(st))
            BY <1>10, <2>3, <3>1, <3>2 DEF Holds
        <3> QED
            BY <3>3, OneFacts, KindFacts
    <2> QED
        BY <1>4, <2>1, <2>2, <2>3 DEF ViewFits
<1>14. RollOnce(s)'
    BY <1>4, <1>6, RollKept DEF FirstInv
<1>15. DiceFit(s)'
    BY <1>4, <1>9, DiceKept DEF FirstInv
<1>16. AskOnce(t)' /\ ViewFits(t)' /\ RollOnce(t)' /\ DiceFit(t)'
    BY <1>4, <1>5, AskKept, ViewKept, RollKept, DiceKept DEF FirstInv, UpLike, DownLike
<1> QED
    BY <1>11, <1>12, <1>13, <1>14, <1>15, <1>16 DEF FirstInv

\* The server applies a write and relays it.
LEMMA WriteFirst ==
    ASSUME TypeInv, NEW s \in Seat, NEW t \in Seat, t = Other(s), s = Other(t), Both,
           FirstInv(s), FirstInv(t), HandleTransaction(s)
    PROVE  FirstInv(s)' /\ FirstInv(t)'
<1> DEFINE w == Head(up[s])
<1>1. /\ up[s] # <<>> /\ up'[s] = Tail(up[s]) /\ up'[t] = up[t]
      /\ UNCHANGED <<checkedIn, delivered, initialRoll, clientVars>>
      /\ \/ w = Refused(s) /\ UNCHANGED <<state, down>>
         \/ /\ w \in Writes(s) /\ state' = ApplyAll(state, w.items)
            /\ down'[s] = down[s]
            /\ seated[t] => down'[t] = down[t] \o <<w>>
    BY TransactionTaken
<1>2. seated[t] /\ state \in States
    BY DEF Both, TypeInv, ServerType
<1>3. UNCHANGED <<initialRoll, view, dice, phase>>
    BY <1>1 DEF clientVars
<1>4. CASE w = Refused(s) /\ UNCHANGED <<state, down>>
    <2>1. UpLike(s)
        BY <1>1, <1>4, UpLikeTaken, MessagesApart, RefusedIsNoWrite DEF UpLike
    <2> QED
        BY <1>1, <1>3, <1>4, <2>1, UpStays, DownStays, FirstKept
<1>5. CASE /\ w \in Writes(s) /\ state' = ApplyAll(state, w.items)
           /\ down'[s] = down[s] /\ down'[t] = down[t] \o <<w>>
    <2>1. /\ UpLike(t) /\ DownLike(s)
        BY <1>1, <1>5, UpStays, DownStays
    <2>2. /\ \A S : Has(up[s], S) <=> w \in S \/ Has(up'[s], S)
          /\ \A S : Once(up[s], S) => Once(up'[s], S) /\ (w \in S => ~Has(up'[s], S))
        BY <1>1, UpTaken
    <2>3. w \in DownMsg(t)
        BY <1>5, MessagesTyped
    <2>4. /\ \A S : Has(down'[t], S) <=> Has(down[t], S) \/ w \in S
          /\ \A S : Once(down[t], S) /\ (w \in S => ~Has(down[t], S)) => Once(down'[t], S)
        BY <1>5, <2>3, DownAdded
    <2> DEFINE new == ApplyAll(state, w.items)
    <2>5. /\ new \in States /\ Stage(new) # "notInit"
          /\ Stage(new) \in {"move", "matchOver"} => w # BeginTx
        <3> DEFINE v == w
        <3>1. v \in Writes(s)
            BY <1>5
        <3>2. v = BeginTx \/ v = EndTx \/ v \in Moves(s)
            BY <3>1, WriteFacts
        <3> HIDE DEF v
        <3>3. /\ ApplyAll(state, v.items) \in States
              /\ v = BeginTx => Stage(ApplyAll(state, v.items)) = "initialRoll"
              /\ v \in Moves(s) => Stage(ApplyAll(state, v.items)) = "move"
              /\ v = EndTx => Stage(ApplyAll(state, v.items)) = "matchOver"
            BY <1>2, <3>1, Applied
        <3>4. v = w
            BY DEF v
        <3> HIDE DEF w
        <3> QED
            BY <3>2, <3>3, <3>4
    <2>6. w # StateRequest /\ w # MatchRequest /\ w # RollRequest
        BY <1>5, MessagesApart
    <2> HIDE DEF w, new
    <2>7. AskLike(s) /\ RollLike(s)
        BY <1>1, <2>6, UpLikeTaken DEF w
    <2>8. StateLike(t) /\ DueLike(t) /\ DiceLike(t)
        BY <1>5, <2>3, DownLikeAdded, RepliesApart
    <2>9. /\ WriteUp(s) /\ ~WriteUp(s)' /\ ~WriteDown(t) /\ ~WriteDown(s) /\ ~WriteUp(t)
          /\ view[s] # NoView
        <3>1. WriteUp(s) /\ ~WriteUp(s)'
            BY <1>5, <2>2 DEF WriteUp, FirstInv, WriteOnce
        <3>2. ~WriteDown(t) /\ view[s] # NoView
            BY <3>1 DEF FirstInv, WriteOnce
        <3>3. ~WriteUp(t) /\ ~WriteDown(s)
            BY <3>1 DEF FirstInv, WriteOnce, Writing
        <3> QED
            BY <3>1, <3>2, <3>3
    <2>10. Has(up[s], One(w))
        BY <2>2, OneFacts
    <2>11. view[s] = new /\ Fits(s, w, state)
        BY <1>5, <2>10 DEF FirstInv, ViewFits, new
    <2>12. state' = new /\ Stage(state)' = Stage(new)
        BY <1>5 DEF new, Stage
    <2>13. AskOnce(s)' /\ AskOnce(t)'
        BY <1>3, <2>1, <2>7, <2>8, AskKept DEF FirstInv, UpLike, DownLike
    <2>14. /\ ~WriteDown(s)' /\ ~WriteUp(t)' /\ WriteDown(t)'
        BY <1>5, <2>1, <2>4, <2>9 DEF UpLike, DownLike, WriteUpLike, WriteDownLike, WriteDown
    <2>15. WriteOnce(s)'
        <3>1. Once(up'[s], Writes(s)) /\ Once(down'[t], Writes(s))
            BY <1>5, <2>2, <2>4, <2>9 DEF FirstInv, WriteOnce, WriteDown
        <3> QED
            BY <2>5, <2>9, <2>12, <2>14, <3>1 DEF WriteOnce, Writing
    <2>16. WriteOnce(t)'
        <3>1. Once(up'[t], Writes(t)) /\ Once(down'[s], Writes(t))
            BY <2>1 DEF FirstInv, WriteOnce, UpLike, DownLike, WriteUpLike, WriteDownLike
        <3> QED
            BY <2>14, <3>1 DEF WriteOnce, Writing
    <2>17. ViewFits(s)'
        <3>1. \A x \in Writes(s) : ~Has(up'[s], One(x))
            BY <2>9, HasMember DEF WriteUp
        <3>2. ~Due(s)'
            BY <2>14 DEF Due
        <3>3. ASSUME NEW st \in States, Holds(s, st)' PROVE st = state'
            <4>1. view'[s] # NoView /\ ~StateDown(s)'
                BY <1>3, <2>9, <2>13 DEF AskOnce
            <4>2. ~Has(down'[s], One(StateMsg(st)))
                BY <4>1, HasMember DEF StateDown, StateMsgs
            <4> QED
                BY <1>3, <2>11, <2>12, <3>3, <4>2 DEF Holds
        <3> QED
            BY <3>1, <3>2, <3>3 DEF ViewFits
    <2>18. ViewFits(t)'
        <3>1. \A x \in Writes(t) : ~Has(up'[t], One(x))
            BY <2>14, HasMember DEF WriteUp
        <3>2. Before(down[t], StateMsgs, Writes(s))
            BY <2>9 DEF Before, WriteDown, Has
        <3>3. Due(t)'
            BY <2>8, <2>14, <3>2 DEF Due, DueLike
        <3>4. ASSUME NEW st \in States, Holds(t, st)' PROVE st = state
            <4>1. Holds(t, st)
                BY <1>3, <2>8, <3>4 DEF Holds, StateLike
            <4>2. ~Due(t)
                BY <2>9 DEF Due
            <4> QED
                BY <2>9, <4>1, <4>2 DEF FirstInv, ViewFits
        <3>5. ASSUME NEW x \in Writes(s), Has(down'[t], One(x)) PROVE x = w
            <4>1. ~Has(down[t], One(x))
                BY <2>9, HasMember DEF WriteDown
            <4> QED
                BY <2>4, <3>5, <4>1, OneFacts
        <3>6. ASSUME NEW st \in States, Holds(t, st)', NEW x \in Writes(s), Has(down'[t], One(x))
              PROVE  state' = ApplyAll(st, x.items) /\ Fits(s, x, st)
            <4>1. st = state /\ x = w
                BY <3>4, <3>5, <3>6
            <4> QED
                BY <2>11, <2>12, <4>1 DEF new
        <3> QED
            BY <3>1, <3>3, <3>6 DEF ViewFits
    <2>19. Stage(new) \in {"move", "matchOver"} => \A y \in Seat : initialRoll[y] # -1
        BY <1>5, <2>5, <2>10 DEF FirstInv, RollOnce
    <2>20. RollOnce(s)'
        <3>1. \A x \in Writes(s) : ~Has(up'[s], One(x))
            BY <2>9, HasMember DEF WriteUp
        <3>2. Stage(view[s])' = Stage(view[s])
            BY <1>3 DEF Stage
        <3> QED
            BY <1>3, <2>7, <2>12, <2>19, <3>1, <3>2 DEF FirstInv, RollOnce, RollLike
    <2>21. RollOnce(t)'
        <3>1. \A x \in Writes(t) : ~Has(up'[t], One(x))
            BY <2>14, HasMember DEF WriteUp
        <3>2. Stage(view[t])' = Stage(view[t])
            BY <1>3 DEF Stage
        <3> QED
            BY <1>3, <2>1, <2>12, <2>19, <3>1, <3>2 DEF FirstInv, RollOnce, UpLike, RollLike
    <2>22. DiceFit(s)' /\ DiceFit(t)'
        BY <1>3, <2>1, <2>8, DiceKept DEF FirstInv, DownLike
    <2> QED
        BY <2>13, <2>15, <2>16, <2>17, <2>18, <2>20, <2>21, <2>22 DEF FirstInv
<1> QED
    BY <1>1, <1>2, <1>4, <1>5

\* A client that has asked for its roll has the state.
LEMMA RollInTime ==
    ASSUME TypeInv, NEW s \in Seat, NEW t \in Seat, t = Other(s), s = Other(t), FirstInv(s),
           RollUp(s), ~WriteUp(s)
    PROVE  ~WriteDown(s) /\ view[s] = state
<1>1. /\ initialRoll[s] = -1 /\ view[s] # NoView /\ Stage(view[s]) = "initialRoll"
    BY DEF FirstInv, RollOnce
<1>2. view[s] \in States
    BY <1>1 DEF TypeInv, ClientType
<1>3. /\ ~Due(s) => view[s] = state
      /\ Due(s) => \A w \in Writes(t) : Has(down[s], One(w)) =>
            state = ApplyAll(view[s], w.items) /\ Fits(t, w, view[s])
    BY <1>2 DEF FirstInv, ViewFits, Holds
<1>4. WriteDown(s) => Due(s)
    <2>1. ~StateDown(s)
        BY <1>1 DEF FirstInv, AskOnce
    <2> QED
        BY <2>1 DEF Due, StateDown, Before, Has
<1>5. ASSUME WriteDown(s) PROVE FALSE
    <2>1. PICK w \in Writes(t) : Has(down[s], One(w))
        BY <1>5, HasMember DEF WriteDown
    <2>2. state = ApplyAll(view[s], w.items) /\ w # BeginTx
        BY <1>1, <1>3, <1>4, <1>5, <2>1 DEF Fits
    <2>3. Stage(state) \in {"move", "matchOver"}
        BY <1>2, <2>2, Applied, WriteFacts
    <2> QED
        BY <1>1, <2>3 DEF FirstInv, RollOnce
<1> QED
    BY <1>3, <1>5 DEF Due

LEMMA RollFirst ==
    ASSUME TypeInv, NEW s \in Seat, NEW t \in Seat, t = Other(s), s = Other(t), Both,
           FirstInv(s), FirstInv(t), HandleRollRequest(s)
    PROVE  FirstInv(s)' /\ FirstInv(t)'
<1>1. /\ up[s] # <<>> /\ Head(up[s]) = RollRequest
      /\ up'[s] = Tail(up[s]) /\ up'[t] = up[t]
      /\ UNCHANGED <<seated, state, view, dice, phase>>
    BY RollTaken DEF clientVars
<1>2. PICK d \in Die :
        /\ initialRoll' = IF Stage(state) = "initialRoll"
                          THEN [initialRoll EXCEPT ![s] = d] ELSE initialRoll
        /\ \A x \in Seat : seated[x] => down'[x] = down[x] \o <<DiceMsg(s, d)>>
    BY RollTaken
<1>3. /\ s # t /\ (\A x \in Seat : x = s \/ x = t) /\ seated[s] /\ seated[t]
      /\ initialRoll \in Rolls /\ d # -1 /\ -1 \notin Die
    <2>1. s # t /\ \A x \in Seat : x = s \/ x = t
        BY SeatFacts
    <2>2. seated[s] /\ seated[t] /\ initialRoll \in Rolls
        BY DEF Both, TypeInv, ServerType
    <2>3. d # -1 /\ -1 \notin Die
        BY DieAssumption
    <2> QED
        BY <2>1, <2>2, <2>3
<1>4. /\ \A S : Has(up[s], S) <=> RollRequest \in S \/ Has(up'[s], S)
      /\ \A S : Once(up[s], S) => Once(up'[s], S) /\ (RollRequest \in S => ~Has(up'[s], S))
      /\ \A S, T : Before(up[s], S, T) =>
            Before(up'[s], S, T) /\ (RollRequest \in T => ~Has(up[s], S))
    BY <1>1, UpTaken
<1>5. RollUp(s) /\ ~RollUp(s)' /\ ~WriteUp(s)
    BY <1>4, OneFacts DEF FirstInv, RollOnce, RollUp, WriteUp
<1>6. initialRoll[s] = -1 /\ Stage(state) = "initialRoll" /\ Stage(view[s]) = "initialRoll"
      /\ view[s] # NoView
    <2>1. view[s] = state
        BY <1>5, RollInTime
    <2> QED
        BY <1>5, <2>1 DEF FirstInv, RollOnce
<1>7. initialRoll'[s] = d /\ initialRoll'[t] = initialRoll[t]
    BY <1>2, <1>3, <1>6 DEF Rolls
<1>8. DiceMsg(s, d) \in DiceMsgs(s) /\ \A x \in Seat : DiceMsg(s, d) \in DownMsg(x)
    BY MessagesTyped DEF DiceMsgs
<1>9. AskLike(s) /\ WriteUpLike(s) /\ UpLike(t)
    BY <1>1, UpLikeTaken, UpStays, MessagesApart
<1>10. \A x \in Seat : StateLike(x) /\ DueLike(x) /\ WriteDownLike(x)
    BY <1>2, <1>3, <1>8, DownLikeAdded, RepliesApart
<1>11. AskOnce(s)' /\ AskOnce(t)'
    BY <1>1, <1>9, <1>10, AskKept DEF FirstInv, UpLike
<1>12. WriteOnce(s)' /\ WriteOnce(t)'
    BY <1>1, <1>9, <1>10, WriteKept DEF FirstInv, UpLike
<1>13. ViewFits(s)' /\ ViewFits(t)'
    BY <1>1, <1>9, <1>10, ViewKept DEF FirstInv, UpLike
<1>14. Stage(state)' = Stage(state) /\ \A x \in Seat : Stage(view[x])' = Stage(view[x])
    BY <1>1 DEF Stage
<1>15. \A y \in Seat : initialRoll[y] # -1 => initialRoll'[y] # -1
    BY <1>3, <1>7
<1>16. RollOnce(s)'
    <2>1. Once(up'[s], One(RollRequest)) /\ Before(up'[s], Writes(s), One(RollRequest))
        BY <1>4 DEF FirstInv, RollOnce
    <2>2. \A w \in Writes(s) : Has(up'[s], One(w)) => Has(up[s], One(w))
        BY <1>9 DEF WriteUpLike
    <2> QED
        BY <1>1, <1>5, <1>6, <1>14, <1>15, <2>1, <2>2 DEF FirstInv, RollOnce
<1>17. RollOnce(t)'
    BY <1>1, <1>7, <1>9, <1>14, <1>15 DEF FirstInv, RollOnce, UpLike, RollLike, WriteUpLike
<1>18. ASSUME NEW x \in Seat, FirstInv(x) PROVE DiceFit(x)'
    <2> DEFINE m == DiceMsg(s, d)
    <2>1. down'[x] = down[x] \o <<m>> /\ m \in DownMsg(x)
        BY <1>2, <1>3, <1>8
    <2>2. /\ \A S : Has(down'[x], S) <=> Has(down[x], S) \/ m \in S
          /\ \A S : Once(down[x], S) /\ (m \in S => ~Has(down[x], S)) => Once(down'[x], S)
        BY <2>1, DownAdded
    <2>3. m \in DiceMsgs(s) /\ m \notin DiceMsgs(t) /\ m.value = d /\ m.seat = s
        BY <1>3, <1>8, RepliesApart, KindFacts
    <2> HIDE DEF m
    <2>4. ~DiceDown(x, s) /\ dice[x][s] = -1
        <3>1. \A e \in Die : ~Has(down[x], One(DiceMsg(s, e)))
            BY <1>3, <1>6, <1>18 DEF FirstInv, DiceFit
        <3>2. ~DiceDown(x, s)
            BY <3>1, HasMember DEF DiceDown, DiceMsgs
        <3> QED
            BY <1>6, <1>18, <3>2 DEF FirstInv, DiceFit
    <2>5. /\ Once(down'[x], DiceMsgs(s)) /\ DiceDown(x, s)'
          /\ \A e \in Die : Has(down'[x], One(DiceMsg(s, e))) => e = d
        <3>1. Once(down'[x], DiceMsgs(s)) /\ DiceDown(x, s)'
            BY <1>18, <2>2, <2>3, <2>4 DEF FirstInv, DiceFit, DiceDown
        <3>2. ASSUME NEW e \in Die, Has(down'[x], One(DiceMsg(s, e))) PROVE e = d
            <4>1. ~Has(down[x], One(DiceMsg(s, e)))
                BY <2>4, HasMember DEF DiceDown, DiceMsgs
            <4>2. m = DiceMsg(s, e)
                BY <2>2, <3>2, <4>1, OneFacts
            <4> QED
                BY <2>3, <4>2, KindFacts
        <3> QED
            BY <3>1, <3>2
    <2>6. /\ Once(down'[x], DiceMsgs(t)) /\ (DiceDown(x, t)' <=> DiceDown(x, t))
          /\ \A e \in Die : Has(down'[x], One(DiceMsg(t, e))) <=> Has(down[x], One(DiceMsg(t, e)))
        <3>1. \A e \in Die : m \notin One(DiceMsg(t, e))
            BY <2>3, OneOfMany
        <3> QED
            BY <1>18, <2>2, <2>3, <3>1 DEF FirstInv, DiceFit, DiceDown
    <2>7. dice' = dice /\ DiceFit(x)
        BY <1>1, <1>18 DEF FirstInv
    <2> QED
        BY <1>3, <1>7, <2>4, <2>5, <2>6, <2>7 DEF DiceFit
<1> QED
    BY <1>11, <1>12, <1>13, <1>16, <1>17, <1>18 DEF FirstInv

LEMMA Longer == \A a, b, f : <<a, b>> # <<f>> \o <<a, b>>
<1> SUFFICES ASSUME NEW a, NEW b, NEW f PROVE Len(<<a, b>>) # Len(<<f>> \o <<a, b>>)
    OBVIOUS
<1> QED
    OBVIOUS

LEMMA JoinFirst ==
    ASSUME TypeInv, NEW s \in Seat, NEW t \in Seat, t = Other(s), s = Other(t), Both,
           FirstInv(s), FirstInv(t), Join(s)
    PROVE  FirstInv(s)' /\ FirstInv(t)'
<1>1. /\ phase[s] = "out" /\ phase' = [phase EXCEPT ![s] = "join"]
      /\ up'[s] = up[s] \o Introduction /\ up'[t] = up[t]
      /\ UNCHANGED <<down, state, initialRoll, view, dice>>
    BY Joined DEF serverVars
<1>2. /\ DownLike(s) /\ DownLike(t) /\ UpLike(t)
      /\ phase'[s] = "join" /\ phase'[t] = phase[t]
    BY <1>1, UpStays, DownStays, SeatFacts DEF TypeInv, ClientType
<1> DEFINE q == up[s]
           c == up'[s]
           r == Introduction
           M == UpMsg(s)
<1>3. q \in Seq(M) /\ c = q \o r
    BY <1>1 DEF TypeInv, UpType
<1>4. /\ r \in Seq(M) /\ Has(r, One(StateRequest)) /\ Once(r, One(StateRequest))
      /\ \A S : Has(r, S) =>
            CheckIn(TRUE) \in S \/ StateRequest \in S \/ MatchRequest \in S
      /\ Has(r, One(MatchRequest)) <=> r = <<MatchRequest>> \o Introduction
    BY IntroductionFacts
<1>5. Introduction # <<MatchRequest>> \o Introduction
    <2>1. Introduction = <<CheckIn(TRUE), StateRequest>>
        BY IntroductionTyped
    <2> QED
        BY <2>1, Longer
<1> HIDE DEF q, c, M
<1>6. /\ ~Has(r, One(MatchRequest)) /\ ~Has(r, Writes(s)) /\ ~Has(r, One(RollRequest))
      /\ \A w \in Writes(s) : ~Has(r, One(w))
    <2>1. /\ ~Has(r, Writes(s)) /\ ~Has(r, One(RollRequest))
        BY <1>4, OneFacts, MessagesApart
    <2> HIDE DEF r
    <2> QED
        BY <1>4, <1>5, <2>1, HasMember DEF r
<1> HIDE DEF r
<1>7. /\ \A S : Has(c, S) <=> Has(q, S) \/ Has(r, S)
      /\ \A S : Once(q, S) /\ ~Has(r, S) => Once(c, S)
      /\ \A S : Once(r, S) /\ ~Has(q, S) => Once(c, S)
      /\ \A S, T : Before(q, S, T) /\ Before(r, S, T) /\ ~(Has(q, T) /\ Has(r, S)) => Before(c, S, T)
    BY <1>3, <1>4, Appended
<1>8. ~StateUp(s) /\ ~StateDown(s) /\ view[s] = NoView /\ ~MatchUp(s)
    BY <1>1 DEF FirstInv, AskOnce
<1>9. Before(r, Writes(s), One(RollRequest))
    BY <1>6 DEF Before, Has
<1>10. WriteUpLike(s)
    BY <1>6, <1>7 DEF WriteUpLike, WriteUp, q, c
<1>11. RollLike(s)
    BY <1>6, <1>7, <1>9 DEF RollLike, RollUp, q, c
<1>12. Once(c, One(StateRequest)) /\ ~Has(c, One(MatchRequest))
    BY <1>4, <1>6, <1>7, <1>8 DEF StateUp, MatchUp, q
<1>13. AskOnce(s)'
    BY <1>1, <1>2, <1>8, <1>12 DEF FirstInv, AskOnce, MatchUp, DownLike, StateLike, c
<1>14. WriteOnce(s)' /\ ViewFits(s)' /\ RollOnce(s)' /\ DiceFit(s)'
    BY <1>1, <1>2, <1>10, <1>11, WriteKept, ViewKept, RollKept, DiceKept
       DEF FirstInv, DownLike, UpLike
<1>15. AskOnce(t)' /\ WriteOnce(t)' /\ ViewFits(t)' /\ RollOnce(t)' /\ DiceFit(t)'
    BY <1>1, <1>2, <1>10, AskKept, WriteKept, ViewKept, RollKept, DiceKept
       DEF FirstInv, DownLike, UpLike
<1> QED
    BY <1>13, <1>14, <1>15 DEF FirstInv

LEMMA SaidFirst ==
    ASSUME TypeInv, NEW s \in Seat, NEW t \in Seat, t = Other(s), s = Other(t), Both,
           FirstInv(s), FirstInv(t), CheckInAgain(s) \/ Garbage(s)
    PROVE  FirstInv(s)' /\ FirstInv(t)'
<1>1. /\ \E m \in {CheckIn(TRUE), CheckIn(FALSE), Refused(s)} : up'[s] = up[s] \o <<m>>
      /\ up'[t] = up[t]
      /\ UNCHANGED <<down, state, initialRoll, view, dice, phase>>
    <2>1. CASE CheckInAgain(s)
        BY <2>1, CheckedInAgain DEF serverVars, clientVars
    <2>2. CASE Garbage(s)
        BY <2>2, GarbageSaid DEF serverVars, clientVars
    <2> QED
        BY <2>1, <2>2
<1>2. PICK m \in {CheckIn(TRUE), CheckIn(FALSE), Refused(s)} : up'[s] = up[s] \o <<m>>
    BY <1>1
<1>3. /\ m \in UpMsg(s) /\ m # StateRequest /\ m # MatchRequest /\ m # RollRequest
      /\ m \notin Writes(s)
    BY MessagesApart, MessagesTyped, RefusedIsNoWrite
<1>4. UpLike(s)
    BY <1>2, <1>3, UpLikeAdded DEF UpLike
<1> QED
    BY <1>1, <1>4, UpStays, DownStays, FirstKept


-----------------------------------------------------------------------------
(* The turn *)

\* A client that has the state is to apply what is under way to it.
LEMMA Known ==
    ASSUME TypeInv, NEW s \in Seat, NEW t \in Seat, t = Other(s), s = Other(t), FirstInv(s),
           view[s] \in States
    PROVE  /\ ~StateUp(s) /\ ~StateDown(s)
           /\ ~WriteUp(s) /\ ~WriteDown(s) => view[s] = state
           /\ \A w \in Writes(t) : ~WriteUp(s) /\ Has(down[s], One(w)) =>
                 state = ApplyAll(view[s], w.items) /\ Fits(t, w, view[s])
<1>1. view[s] # NoView
    BY StateFacts
<1>2. ~StateUp(s) /\ ~StateDown(s)
    BY <1>1 DEF FirstInv, AskOnce
<1>3. WriteDown(s) <=> Due(s)
    BY <1>2 DEF Due, StateDown, Before, Has
<1>4. Holds(s, view[s])
    BY DEF Holds
<1>5. /\ ~WriteUp(s) /\ ~Due(s) => view[s] = state
      /\ ~WriteUp(s) /\ Due(s) => \A w \in Writes(t) : Has(down[s], One(w)) =>
            state = ApplyAll(view[s], w.items) /\ Fits(t, w, view[s])
    BY <1>4 DEF FirstInv, ViewFits
<1>6. \A w \in Writes(t) : Has(down[s], One(w)) => WriteDown(s)
    BY HasMember DEF WriteDown
<1> QED
    BY <1>2, <1>3, <1>5, <1>6

\* While it is the turn of s, nothing of the other is under way.
LEMMA TurnIsFree ==
    ASSUME TypeInv, NEW s \in Seat, NEW t \in Seat, t = Other(s), s = Other(t),
           FirstInv(s), FirstInv(t), view[s] \in States, Turn(view[s]) = s
    PROVE  ~Writing(t)
<1>1. s # t
    BY SeatFacts
<1>2. Writing(t) => ~WriteUp(s) /\ ~WriteDown(t)
    BY DEF FirstInv, WriteOnce, Writing
<1>3. CASE WriteUp(t)
    <2>1. PICK w \in Writes(t) : Has(up[t], One(w))
        BY <1>3, HasMember DEF WriteUp
    <2>2. Turn(state) = t
        BY <2>1 DEF FirstInv, ViewFits, Fits
    <2>3. ~WriteUp(s) /\ ~WriteDown(s)
        BY <1>2, <1>3 DEF FirstInv, WriteOnce, Writing
    <2> QED
        BY <1>1, <2>2, <2>3, Known
<1>4. CASE WriteDown(s)
    <2>1. PICK w \in Writes(t) : Has(down[s], One(w))
        BY <1>4, HasMember DEF WriteDown
    <2>2. ~WriteUp(s)
        BY <1>2, <1>4 DEF Writing
    <2>3. Turn(view[s]) = t
        BY <2>1, <2>2, Known DEF Fits
    <2> QED
        BY <1>1, <2>3
<1> QED
    BY <1>3, <1>4 DEF Writing

\* w is a write that s can make.
Ready(s, w) ==
    /\ view[s] \in States /\ Turn(view[s]) = s
    /\ w = BeginTx => Stage(view[s]) = "notInit"
    /\ w \in Moves(s) => \/ Stage(view[s]) = "move"
                         \/ Stage(view[s]) = "initialRoll" /\ \A y \in Seat : dice[s][y] # -1
    /\ w = EndTx => Stage(view[s]) = "move"

\* A client that knows a roll knows one that was made.
LEMMA RollKnown ==
    ASSUME NEW s \in Seat, NEW y \in Seat, FirstInv(s), dice[s][y] # -1
    PROVE  initialRoll[y] # -1
<1>1. CASE DiceDown(s, y)
    <2>1. PICK m \in DiceMsgs(y) : Has(down[s], One(m))
        BY <1>1, HasMember DEF DiceDown
    <2>2. PICK d \in Die : m = DiceMsg(y, d)
        BY DEF DiceMsgs
    <2> QED
        BY <2>1, <2>2 DEF FirstInv, DiceFit
<1>2. CASE ~DiceDown(s, y)
    BY <1>2 DEF FirstInv, DiceFit
<1> QED
    BY <1>1, <1>2

\* Who can write has seen everything written.
LEMMA WriterIsFree ==
    ASSUME TypeInv, NEW s \in Seat, NEW t \in Seat, t = Other(s), s = Other(t), Both,
           FirstInv(s), FirstInv(t), NEW w \in Writes(s), Ready(s, w)
    PROVE  ~WriteUp(s) /\ ~WriteDown(t) /\ ~Writing(t) /\ view[s] = state
<1>1. s # t /\ state \in States
    BY SeatFacts DEF TypeInv, ServerType
<1>2. ~Writing(t) /\ ~WriteUp(t) /\ ~WriteDown(s)
    BY TurnIsFree DEF Ready, Writing
<1>3. w = BeginTx \/ w = EndTx \/ w \in Moves(s)
    BY WriteFacts
<1>4. \/ w = BeginTx /\ Stage(view[s]) = "notInit"
      \/ Stage(view[s]) = "move"
      \/ Stage(view[s]) = "initialRoll" /\ \A y \in Seat : dice[s][y] # -1
    BY <1>3 DEF Ready
<1>5. Stage(view[s]) = "initialRoll" /\ (\A y \in Seat : dice[s][y] # -1)
        => view[t] # NoView /\ Stage(view[t]) # "notInit"
    <2>1. dice[s][t] # -1 => initialRoll[t] # -1
        BY RollKnown
    <2> QED
        BY <2>1 DEF FirstInv, RollOnce
<1>6. view[t] \in States \cup {NoView}
    BY DEF TypeInv, ClientType
<1>7. ASSUME WriteUp(s) PROVE FALSE
    <2>1. PICK v \in Writes(s) : Has(up[s], One(v))
        BY <1>7, HasMember DEF WriteUp
    <2>2. view[s] = ApplyAll(state, v.items) /\ Fits(s, v, state)
        BY <2>1 DEF FirstInv, ViewFits
    <2>3. v = BeginTx \/ v = EndTx \/ v \in Moves(s)
        BY WriteFacts
    <2>4. v \notin Moves(s)
        BY <1>1, <2>2, Applied DEF Ready
    <2>5. v # EndTx
        BY <1>1, <1>4, <2>2, Applied
    <2>6. Stage(view[s]) = "initialRoll" /\ Stage(state) = "notInit"
        BY <1>1, <2>2, <2>3, <2>4, <2>5, Applied DEF Fits
    <2>7. view[t] \in States /\ Stage(view[t]) # "notInit"
        BY <1>4, <1>5, <1>6, <2>6
    <2>8. ~WriteDown(t)
        BY <1>7 DEF FirstInv, WriteOnce
    <2>9. view[t] = state
        BY <1>2, <2>7, <2>8, Known
    <2> QED
        BY <2>6, <2>7, <2>9
<1>8. view[s] = state
    BY <1>2, <1>7, Known DEF Ready
<1>9. ASSUME WriteDown(t) PROVE FALSE
    <2>1. PICK v \in Writes(s) : Has(down[t], One(v))
        BY <1>9, HasMember DEF WriteDown
    <2>2. Stage(state) # "notInit"
        BY <1>9 DEF FirstInv, WriteOnce
    <2>3. view[t] # NoView /\ Stage(view[t]) # "notInit"
        <3>1. Stage(state) = "move" => initialRoll[t] # -1
            BY DEF FirstInv, RollOnce
        <3>2. Stage(state) = "move" => view[t] # NoView /\ Stage(view[t]) # "notInit"
            BY <3>1 DEF FirstInv, RollOnce
        <3> QED
            BY <1>4, <1>5, <1>8, <2>2, <3>2
    <2>4. view[t] \in States
        BY <1>6, <2>3
    <2>5. state = ApplyAll(view[t], v.items) /\ Fits(s, v, view[t])
        BY <1>2, <2>1, <2>4, Known
    <2>6. v = BeginTx \/ v = EndTx \/ v \in Moves(s)
        BY WriteFacts
    <2>7. v # BeginTx
        BY <2>3, <2>5 DEF Fits
    <2>8. v \notin Moves(s)
        <3>1. v \in Moves(s) => Turn(state) = t
            BY <2>4, <2>5, Applied
        <3>2. Turn(state) = s
            BY <1>8 DEF Ready
        <3> QED
            BY <1>1, <3>1, <3>2
    <2>9. v # EndTx
        BY <1>4, <1>8, <2>2, <2>4, <2>5, Applied
    <2> QED
        BY <2>6, <2>7, <2>8, <2>9
<1> QED
    BY <1>2, <1>7, <1>8, <1>9

LEMMA WrittenFirst ==
    ASSUME TypeInv, NEW s \in Seat, NEW t \in Seat, t = Other(s), s = Other(t), Both,
           FirstInv(s), FirstInv(t), NEW w \in Writes(s), Ready(s, w), phase[s] # "out",
           up'[s] = up[s] \o <<w>>, up'[t] = up[t],
           view' = [view EXCEPT ![s] = ApplyAll(view[s], w.items)],
           UNCHANGED <<down, state, initialRoll, dice, phase>>
    PROVE  FirstInv(s)' /\ FirstInv(t)'
<1> DEFINE new == ApplyAll(view[s], w.items)
<1>1. s # t /\ view'[s] = new /\ view'[t] = view[t] /\ state \in States
    BY SeatFacts DEF TypeInv, ClientType, ServerType
<1>2. ~WriteUp(s) /\ ~WriteDown(t) /\ ~Writing(t) /\ ~WriteUp(t) /\ ~WriteDown(s) /\ view[s] = state
    BY WriterIsFree DEF Writing
<1>3. ~StateUp(s) /\ ~StateDown(s) /\ view[s] \in States
    BY Known DEF Ready
<1>4. w = BeginTx \/ w = EndTx \/ w \in Moves(s)
    BY WriteFacts
<1>5. /\ new \in States /\ Stage(new) # "notInit" /\ new # NoView
    BY <1>3, <1>4, Applied, StateFacts
<1> HIDE DEF new
<1>6. w # BeginTx => \A y \in Seat : initialRoll[y] # -1
    <2>1. Stage(view[s]) = "move" => \A y \in Seat : initialRoll[y] # -1
        BY <1>2 DEF FirstInv, RollOnce
    <2>2. (\A y \in Seat : dice[s][y] # -1) => \A y \in Seat : initialRoll[y] # -1
        BY RollKnown
    <2> QED
        BY <1>4, <2>1, <2>2 DEF Ready
<1>7. ~RollUp(s)
    <2>1. RollUp(s) => initialRoll[s] = -1 /\ Stage(view[s]) = "initialRoll"
        BY DEF FirstInv, RollOnce
    <2> QED
        BY <1>6, <2>1 DEF Ready
<1>8. w \in UpMsg(s) /\ w # StateRequest /\ w # MatchRequest /\ w # RollRequest
    BY MessagesTyped, MessagesApart
<1>9. AskLike(s) /\ RollLike(s)
    BY <1>7, <1>8, UpLikeAdded
<1>10. UpLike(t) /\ DownLike(s) /\ DownLike(t)
    BY UpStays, DownStays
<1>11. /\ \A S : Has(up'[s], S) <=> Has(up[s], S) \/ w \in S
       /\ \A S : Once(up[s], S) /\ (w \in S => ~Has(up[s], S)) => Once(up'[s], S)
    BY <1>8, UpAdded
<1>12. \A v \in Writes(s) : Has(up'[s], One(v)) => v = w
    <2> SUFFICES ASSUME NEW v \in Writes(s), Has(up'[s], One(v)) PROVE v = w
        OBVIOUS
    <2>1. ~Has(up[s], One(v))
        BY <1>2, HasMember DEF WriteUp
    <2> QED
        BY <1>11, <2>1, OneFacts
<1>13. WriteUp(s)' /\ Once(up'[s], Writes(s))
    BY <1>2, <1>11 DEF FirstInv, WriteOnce, WriteUp
<1>14. ~WriteDown(t)' /\ ~WriteDown(s)' /\ ~WriteUp(t)' /\ ~Writing(t)'
    BY <1>2, <1>10 DEF DownLike, UpLike, WriteDownLike, WriteUpLike, Writing
<1>15. AskOnce(s)'
    <2>1. ~StateUp(s)' /\ ~StateDown(s)'
        BY <1>3, <1>9, <1>10 DEF AskLike, DownLike, StateLike
    <2> QED
        BY <1>9, <1>10, <2>1 DEF FirstInv, AskOnce, AskLike, DownLike, StateLike
<1>16. AskOnce(t)' /\ DiceFit(t)' /\ RollOnce(t)' /\ ViewFits(t)'
    BY <1>1, <1>10, AskKept, DiceKept, RollKept, ViewKept DEF FirstInv, UpLike, DownLike
<1>17. DiceFit(s)'
    BY <1>10, DiceKept DEF FirstInv, DownLike
<1>18. WriteOnce(s)'
    <2>1. Once(down'[t], Writes(s))
        BY <1>10 DEF FirstInv, WriteOnce, DownLike, WriteDownLike
    <2> QED
        BY <1>1, <1>5, <1>13, <1>14, <2>1 DEF WriteOnce
<1>19. WriteOnce(t)'
    <2>1. Once(up'[t], Writes(t)) /\ Once(down'[s], Writes(t))
        BY <1>10 DEF FirstInv, WriteOnce, UpLike, DownLike, WriteUpLike, WriteDownLike
    <2> QED
        BY <1>14, <2>1 DEF WriteOnce
<1>20. ViewFits(s)'
    <2>1. view'[s] = ApplyAll(state', w.items)
        BY <1>1, <1>2 DEF new
    <2>2. Fits(s, w, state)'
        BY <1>2 DEF Ready, Fits, Turn, Stage
    <2> QED
        BY <1>12, <1>13, <2>1, <2>2 DEF ViewFits
<1>21. RollOnce(s)'
    <2>1. /\ Once(up'[s], One(RollRequest)) /\ Before(up'[s], Writes(s), One(RollRequest))
          /\ ~RollUp(s)'
        BY <1>7, <1>9 DEF FirstInv, RollOnce, RollLike
    <2>2. Stage(view[s])' # "notInit" /\ view'[s] # NoView
        BY <1>1, <1>5 DEF Stage
    <2>3. Stage(state)' = Stage(state)
        BY DEF Stage
    <2>4. Stage(state) \in {"move", "matchOver"} => \A y \in Seat : initialRoll[y] # -1
        BY DEF FirstInv, RollOnce
    <2>5. \A v \in Writes(s) : v # BeginTx /\ Has(up'[s], One(v)) => \A y \in Seat : initialRoll[y] # -1
        BY <1>6, <1>12
    <2> QED
        BY <2>1, <2>2, <2>3, <2>4, <2>5 DEF RollOnce
<1> QED
    BY <1>15, <1>16, <1>17, <1>18, <1>19, <1>20, <1>21 DEF FirstInv

LEMMA RollAskedFirst ==
    ASSUME TypeInv, NEW s \in Seat, NEW t \in Seat, t = Other(s), s = Other(t), Both,
           FirstInv(s), FirstInv(t), Roll(s)
    PROVE  FirstInv(s)' /\ FirstInv(t)'
<1>1. /\ phase[s] = "play" /\ Stage(view[s]) = "initialRoll" /\ dice[s][s] = -1 /\ ~HasAsked(s)
      /\ up'[s] = up[s] \o <<RollRequest>> /\ up'[t] = up[t]
      /\ UNCHANGED <<down, state, initialRoll, view, dice, phase>>
    BY RollAsked DEF serverVars, clientVars
<1>2. view[s] \in States /\ view[s] # NoView
    BY <1>1, StateFacts DEF TypeInv, ClientType
<1>3. ~RollUp(s) /\ ~DiceDown(s, s)
    <2>1. RollUp(s) => HasAsked(s)
        BY KindFacts, OneFacts DEF RollUp, Has, HasAsked
    <2>2. DiceDown(s, s) => HasAsked(s)
        BY KindFacts DEF DiceDown, Has, HasAsked
    <2> QED
        BY <1>1, <2>1, <2>2
<1>4. initialRoll[s] = -1
    BY <1>1, <1>3 DEF FirstInv, DiceFit
<1>5. AskLike(s) /\ WriteUpLike(s) /\ UpLike(t) /\ DownLike(s) /\ DownLike(t)
    BY <1>1, UpLikeAdded, UpStays, DownStays, MessagesApart, MessagesTyped
<1>6. /\ Once(up'[s], One(RollRequest)) /\ Before(up'[s], Writes(s), One(RollRequest))
    <2>1. /\ \A S : Once(up[s], S) /\ (RollRequest \in S => ~Has(up[s], S)) => Once(up'[s], S)
          /\ \A S, T : Before(up[s], S, T)
                /\ (RollRequest \in S => RollRequest \notin T /\ ~Has(up[s], T))
                => Before(up'[s], S, T)
        BY <1>1, MessagesTyped, UpAdded
    <2>2. RollRequest \notin Writes(s)
        BY MessagesApart
    <2> QED
        BY <1>3, <2>1, <2>2 DEF FirstInv, RollOnce, RollUp
<1>7. RollOnce(s)'
    <2>1. Stage(view[s])' = Stage(view[s]) /\ Stage(state)' = Stage(state)
        BY <1>1 DEF Stage
    <2>2. \A w \in Writes(s) : Has(up'[s], One(w)) => Has(up[s], One(w))
        BY <1>5 DEF WriteUpLike
    <2> QED
        BY <1>1, <1>2, <1>4, <1>6, <2>1, <2>2 DEF FirstInv, RollOnce
<1>8. RollOnce(t)'
    BY <1>1, <1>5, RollKept DEF FirstInv, UpLike
<1>9. AskOnce(s)' /\ AskOnce(t)'
    BY <1>1, <1>5, AskKept DEF FirstInv, UpLike, DownLike
<1>10. WriteOnce(s)' /\ WriteOnce(t)'
    BY <1>1, <1>5, WriteKept DEF FirstInv, UpLike, DownLike
<1>11. ViewFits(s)' /\ ViewFits(t)'
    BY <1>1, <1>5, ViewKept DEF FirstInv, UpLike, DownLike
<1>12. DiceFit(s)' /\ DiceFit(t)'
    BY <1>1, <1>5, DiceKept DEF FirstInv, DownLike
<1> QED
    BY <1>7, <1>8, <1>9, <1>10, <1>11, <1>12 DEF FirstInv

\* A client takes the state.
LEMMA StateReceivedFirst ==
    ASSUME TypeInv, NEW s \in Seat, NEW t \in Seat, t = Other(s), s = Other(t), Both,
           FirstInv(s), FirstInv(t), NEW st \in States,
           down[s] # <<>>, Head(down[s]) = StateMsg(st), down'[s] = Tail(down[s]),
           down'[t] = down[t], view'[s] = st, view'[t] = view[t],
           phase'[s] = "out" => phase[s] = "out", phase'[t] = phase[t],
           UNCHANGED <<up, state, initialRoll, dice>>
    PROVE  FirstInv(s)' /\ FirstInv(t)'
<1> DEFINE m == StateMsg(st)
<1>1. m \in StateMsgs /\ m = Head(down[s])
    BY DEF StateMsgs
<1>2. /\ \A S : Has(down[s], S) <=> m \in S \/ Has(down'[s], S)
      /\ \A S : Once(down[s], S) => Once(down'[s], S) /\ (m \in S => ~Has(down'[s], S))
    BY DownTaken
<1>3. WriteDownLike(s) /\ DueLike(s) /\ DiceLike(s)
    BY <1>1, DownLikeTaken, RepliesApart
<1>4. UpLike(s) /\ UpLike(t) /\ DownLike(t)
    BY UpStays, DownStays
<1> HIDE DEF m
<1>5. StateDown(s) /\ ~StateDown(s)' /\ Once(down'[s], StateMsgs)
    BY <1>1, <1>2 DEF FirstInv, AskOnce, StateDown
<1>6. view[s] = NoView /\ ~StateUp(s) /\ phase[s] # "out" /\ ~WriteUp(s) /\ ~RollUp(s)
      /\ initialRoll[s] = -1
    BY <1>5 DEF FirstInv, AskOnce, WriteOnce, RollOnce
<1>7. AskOnce(s)'
    BY <1>4, <1>5, <1>6 DEF FirstInv, AskOnce, UpLike, AskLike
<1>8. WriteOnce(s)' /\ WriteOnce(t)'
    BY <1>3, <1>4, <1>6, WriteKept DEF FirstInv, UpLike, DownLike
<1>9. ViewFits(s)'
    <2>1. \A w \in Writes(s) : ~Has(up'[s], One(w))
        BY <1>6, HasMember DEF WriteUp
    <2>2. ASSUME NEW x \in States, Holds(s, x)' PROVE x = st
        <3>1. ~Has(down'[s], One(StateMsg(x)))
            BY <1>5, HasMember DEF StateDown, StateMsgs
        <3> QED
            BY <2>2, <3>1 DEF Holds
    <2>3. Holds(s, st)
        BY <1>2, OneFacts DEF Holds, m
    <2>4. Due(s)' <=> Due(s)
        BY <1>3 DEF Due, WriteDownLike, DueLike
    <2>5. /\ ~Due(s) => st = state
          /\ Due(s) => \A w \in Writes(t) : Has(down[s], One(w)) =>
                state = ApplyAll(st, w.items) /\ Fits(t, w, st)
        BY <1>6, <2>3 DEF FirstInv, ViewFits
    <2>6. \A w \in Writes(t) : Has(down'[s], One(w)) => Has(down[s], One(w))
        BY <1>3 DEF WriteDownLike
    <2> QED
        BY <2>1, <2>2, <2>4, <2>5, <2>6 DEF ViewFits
<1>10. RollOnce(s)'
    <2>1. Stage(state)' = Stage(state)
        BY DEF Stage
    <2> QED
        BY <1>4, <1>6, <2>1 DEF FirstInv, RollOnce, UpLike, RollLike, WriteUpLike
<1>11. DiceFit(s)'
    BY <1>3, DiceKept DEF FirstInv
<1>12. AskOnce(t)' /\ ViewFits(t)' /\ RollOnce(t)' /\ DiceFit(t)'
    BY <1>4, AskKept, ViewKept, RollKept, DiceKept DEF FirstInv, UpLike, DownLike
<1> QED
    BY <1>7, <1>8, <1>9, <1>10, <1>11, <1>12 DEF FirstInv

\* A client takes a write of the other, and applies it to the state it has, if it has.
LEMMA WriteReceivedFirst ==
    ASSUME TypeInv, NEW s \in Seat, NEW t \in Seat, t = Other(s), s = Other(t), Both,
           FirstInv(s), FirstInv(t), NEW w \in Writes(t),
           down[s] # <<>>, Head(down[s]) = w, down'[s] = Tail(down[s]), down'[t] = down[t],
           view'[s] = IF view[s] = NoView THEN NoView ELSE ApplyAll(view[s], w.items),
           view'[t] = view[t],
           phase'[s] = "out" => phase[s] = "out", phase'[t] = phase[t],
           UNCHANGED <<up, state, initialRoll, dice>>
    PROVE  FirstInv(s)' /\ FirstInv(t)'
<1>1. /\ \A S : Has(down[s], S) <=> w \in S \/ Has(down'[s], S)
      /\ \A S : Once(down[s], S) => Once(down'[s], S) /\ (w \in S => ~Has(down'[s], S))
      /\ \A S, T : Before(down[s], S, T) /\ w \in T => ~Has(down[s], S)
    BY DownTaken
<1>2. StateLike(s) /\ DiceLike(s)
    BY DownLikeTaken, RepliesApart
<1>3. UpLike(s) /\ UpLike(t) /\ DownLike(t)
    BY UpStays, DownStays
<1>4. WriteDown(s) /\ ~WriteDown(s)' /\ Once(down'[s], Writes(t))
    BY <1>1 DEF FirstInv, WriteOnce, WriteDown
<1>5. ~WriteUp(t) /\ ~Writing(s) /\ ~WriteUp(s)
    BY <1>4 DEF FirstInv, WriteOnce, Writing
<1>6. ~WriteUp(t)' /\ ~WriteUp(s)' /\ ~Writing(s)' /\ ~Writing(t)'
    BY <1>3, <1>4, <1>5 DEF UpLike, WriteUpLike, DownLike, WriteDownLike, Writing
<1>7. view[s] \in States \cup {NoView}
    BY DEF TypeInv, ClientType
<1>8. view[s] # NoView =>
        /\ view[s] \in States /\ view'[s] = ApplyAll(view[s], w.items)
        /\ view'[s] \in States /\ Stage(view'[s]) # "notInit"
    <2>1. ASSUME view[s] \in States
          PROVE  ApplyAll(view[s], w.items) \in States
                 /\ Stage(ApplyAll(view[s], w.items)) # "notInit"
        BY <2>1, Applied, WriteFacts
    <2> QED
        BY <1>7, <2>1
<1>9. view'[s] = NoView <=> view[s] = NoView
    BY <1>8, StateFacts
<1>10. AskOnce(s)'
    BY <1>2, <1>3, <1>9 DEF FirstInv, AskOnce, UpLike, AskLike, StateLike
<1>11. WriteOnce(s)'
    <2>1. Once(up'[s], Writes(s)) /\ Once(down'[t], Writes(s))
        BY <1>3 DEF FirstInv, WriteOnce, UpLike, DownLike, WriteUpLike, WriteDownLike
    <2> QED
        BY <1>6, <2>1 DEF WriteOnce, Writing
<1>12. WriteOnce(t)'
    <2>1. Once(up'[t], Writes(t))
        BY <1>3 DEF FirstInv, WriteOnce, UpLike, WriteUpLike
    <2> QED
        BY <1>4, <1>6, <2>1 DEF WriteOnce, Writing
<1>13. ViewFits(s)'
    <2>1. \A v \in Writes(s) : ~Has(up'[s], One(v))
        BY <1>5, HasMember DEF WriteUp
    <2>2. ~Due(s)'
        BY <1>4 DEF Due
    <2>3. ASSUME NEW st \in States, Holds(s, st)' PROVE st = state
        <3>1. CASE view'[s] = st
            <4>1. view[s] # NoView
                BY <1>9, <3>1, StateFacts
            <4>2. view[s] \in States /\ st = ApplyAll(view[s], w.items)
                BY <1>8, <3>1, <4>1
            <4>3. Has(down[s], One(w))
                BY <1>1, OneFacts
            <4> QED
                BY <1>5, <4>2, <4>3, Known
        <3>2. CASE Has(down'[s], One(StateMsg(st)))
            <4>1. Has(down[s], One(StateMsg(st))) /\ Has(down[s], StateMsgs)
                BY <1>1, <3>2, HasMember DEF StateMsgs
            <4>2. ~Due(s)
                BY <1>1, <4>1 DEF Due
            <4>3. Holds(s, st)
                BY <4>1 DEF Holds
            <4> QED
                BY <1>5, <4>2, <4>3 DEF FirstInv, ViewFits
        <3> QED
            BY <2>3, <3>1, <3>2 DEF Holds
    <2> QED
        BY <2>1, <2>2, <2>3 DEF ViewFits
<1>14. RollOnce(s)'
    <2>1. ~RollUp(s)
        BY <1>4, <1>5, RollInTime
    <2>2. Stage(state)' = Stage(state) /\ Stage(view[s])' = Stage(view'[s])
        BY DEF Stage
    <2>3. initialRoll[s] # -1 => view'[s] # NoView /\ Stage(view[s])' # "notInit"
        BY <1>8, <1>9, <2>2 DEF FirstInv, RollOnce
    <2> QED
        BY <1>3, <2>1, <2>2, <2>3 DEF FirstInv, RollOnce, UpLike, RollLike, WriteUpLike
<1>15. DiceFit(s)'
    BY <1>2, DiceKept DEF FirstInv
<1>16. AskOnce(t)' /\ ViewFits(t)' /\ RollOnce(t)' /\ DiceFit(t)'
    BY <1>3, AskKept, ViewKept, RollKept, DiceKept DEF FirstInv, UpLike, DownLike
<1> QED
    BY <1>10, <1>11, <1>12, <1>13, <1>14, <1>15, <1>16 DEF FirstInv

\* A client takes a roll.
LEMMA DiceReceivedFirst ==
    ASSUME TypeInv, NEW s \in Seat, NEW t \in Seat, t = Other(s), s = Other(t), Both,
           FirstInv(s), FirstInv(t), NEW y \in Seat, NEW d \in Die,
           down[s] # <<>>, Head(down[s]) = DiceMsg(y, d), down'[s] = Tail(down[s]),
           down'[t] = down[t], dice'[s] = [dice[s] EXCEPT ![y] = d], dice'[t] = dice[t],
           phase'[s] = "out" => phase[s] = "out", phase'[t] = phase[t],
           UNCHANGED <<up, state, initialRoll, view>>
    PROVE  FirstInv(s)' /\ FirstInv(t)'
<1> DEFINE m == DiceMsg(y, d)
<1>1. m \in DiceMsgs(y) /\ m = Head(down[s])
    BY DEF DiceMsgs
<1>2. /\ \A S : Has(down[s], S) <=> m \in S \/ Has(down'[s], S)
      /\ \A S : Once(down[s], S) => Once(down'[s], S) /\ (m \in S => ~Has(down'[s], S))
    BY DownTaken
<1>3. StateLike(s) /\ WriteDownLike(s) /\ DueLike(s)
    BY <1>1, DownLikeTaken, RepliesApart
<1>4. UpLike(s) /\ UpLike(t) /\ DownLike(t)
    BY UpStays, DownStays
<1>5. \A z \in Seat : z # y => m \notin DiceMsgs(z)
    BY <1>1, RepliesApart
<1>6. m \in One(DiceMsg(y, d))
    BY OneFacts
<1>7. dice[s] \in Rolls
    BY DEF TypeInv, ClientType
<1> HIDE DEF m
<1>8. DiceFit(s)'
    <2> SUFFICES ASSUME NEW z \in Seat
                 PROVE  /\ Once(down'[s], DiceMsgs(z))
                        /\ ~DiceDown(s, z)' => dice'[s][z] = initialRoll'[z]
                        /\ \A e \in Die : Has(down'[s], One(DiceMsg(z, e))) =>
                              initialRoll'[z] = e /\ dice'[s][z] = -1
        BY DEF DiceFit
    <2>1. Once(down'[s], DiceMsgs(z)) /\ Once(down[s], DiceMsgs(z))
        BY <1>2 DEF FirstInv, DiceFit
    <2>2. CASE z = y
        <3>1. initialRoll[y] = d
            BY <1>2, <1>6 DEF FirstInv, DiceFit
        <3>2. ~Has(down'[s], DiceMsgs(y))
            BY <1>1, <1>2, <2>1, <2>2
        <3>3. \A e \in Die : ~Has(down'[s], One(DiceMsg(y, e)))
            BY <3>2, HasMember DEF DiceMsgs
        <3>4. dice'[s][y] = d
            BY <1>7 DEF Rolls
        <3> QED
            BY <2>1, <2>2, <3>1, <3>2, <3>3, <3>4
    <2>3. CASE z # y
        <3>1. dice'[s][z] = dice[s][z]
            BY <1>7, <2>3 DEF Rolls
        <3>2. DiceDown(s, z)' <=> DiceDown(s, z)
            BY <1>2, <1>5, <2>3 DEF DiceDown
        <3>3. \A e \in Die : Has(down'[s], One(DiceMsg(z, e))) => Has(down[s], One(DiceMsg(z, e)))
            BY <1>2
        <3> QED
            BY <2>1, <3>1, <3>2, <3>3 DEF FirstInv, DiceFit
    <2> QED
        BY <2>2, <2>3
<1>9. AskOnce(s)' /\ AskOnce(t)'
    BY <1>3, <1>4, AskKept DEF FirstInv, UpLike, DownLike
<1>10. WriteOnce(s)' /\ WriteOnce(t)'
    BY <1>3, <1>4, WriteKept DEF FirstInv, UpLike, DownLike
<1>11. ViewFits(s)' /\ ViewFits(t)'
    BY <1>3, <1>4, ViewKept DEF FirstInv, UpLike, DownLike
<1>12. RollOnce(s)' /\ RollOnce(t)'
    BY <1>4, RollKept DEF FirstInv, UpLike
<1>13. DiceFit(t)'
    BY <1>4, DiceKept DEF FirstInv, DownLike
<1> QED
    BY <1>8, <1>9, <1>10, <1>11, <1>12, <1>13 DEF FirstInv

LEMMA ReceiveFirst ==
    ASSUME TypeInv, NEW s \in Seat, NEW t \in Seat, t = Other(s), s = Other(t), Both,
           FirstInv(s), FirstInv(t), Receive(s)
    PROVE  FirstInv(s)' /\ FirstInv(t)'
<1> DEFINE h == Head(down[s])
<1>1. /\ down[s] # <<>> /\ h \in DownMsg(s)
      /\ down'[s] = Tail(down[s]) /\ down'[t] = down[t]
      /\ UNCHANGED <<seated, serverVars, up, again>>
      /\ view'[t] = view[t] /\ dice'[t] = dice[t] /\ phase'[t] = phase[t]
      /\ \A st \in States : h = StateMsg(st) => view'[s] = st
      /\ h \in Writes(t) =>
           view'[s] = IF view[s] = NoView THEN NoView ELSE ApplyAll(view[s], h.items)
      /\ h \notin StateMsgs \cup Writes(t) => view'[s] = view[s]
      /\ \A y \in Seat, d \in Die : h = DiceMsg(y, d) => dice'[s] = [dice[s] EXCEPT ![y] = d]
      /\ (\A y \in Seat : h \notin DiceMsgs(y)) => dice'[s] = dice[s]
    BY Received
<1>2. phase'[s] = "out" => phase[s] = "out"
    <2>1. phase'[s] = IF phase[s] = "join" /\ got'[s] = Seat /\ view'[s] # NoView
                      THEN "play" ELSE phase[s]
        BY Received
    <2> QED
        BY <2>1
<1>3. UNCHANGED <<up, state, initialRoll>>
    BY <1>1 DEF serverVars
<1>4. \A x \in Seat : x = s \/ x = t
    BY SeatFacts
<1>5. /\ DOMAIN view = Seat /\ DOMAIN dice = Seat /\ DOMAIN view' = Seat /\ DOMAIN dice' = Seat
      /\ view = [x \in Seat |-> view[x]] /\ view' = [x \in Seat |-> view'[x]]
      /\ dice = [x \in Seat |-> dice[x]] /\ dice' = [x \in Seat |-> dice'[x]]
    BY Received DEF TypeInv, ClientType
<1>6. /\ view'[s] = view[s] => view' = view
      /\ dice'[s] = dice[s] => dice' = dice
    BY <1>1, <1>4, <1>5
<1>7. CASE \E x \in Seat : h = CheckInOf(x)
    <2>1. h \notin StateMsgs /\ h \notin Writes(t) /\ \A y \in Seat : h \notin DiceMsgs(y)
        BY <1>7, RepliesApart
    <2>2. DownLike(s)
        BY <1>1, <2>1, DownLikeTaken DEF DownLike
    <2>3. UpLike(s) /\ UpLike(t) /\ DownLike(t)
        BY <1>1, UpStays, DownStays
    <2> QED
        BY <1>1, <1>2, <1>3, <2>1, <2>2, <2>3, FirstKept
<1>8. CASE h \in StateMsgs
    <2>1. PICK st \in States : h = StateMsg(st)
        BY <1>8 DEF StateMsgs
    <2>2. dice' = dice
        BY <1>1, <1>6, <1>8, RepliesApart
    <2> QED
        BY <1>1, <1>2, <1>3, <2>1, <2>2, StateReceivedFirst
<1>9. CASE h \in Writes(t)
    <2>1. dice' = dice
        BY <1>1, <1>6, <1>9, RepliesApart
    <2> QED
        BY <1>1, <1>2, <1>3, <1>9, <2>1, WriteReceivedFirst
<1>10. CASE \E y \in Seat : h \in DiceMsgs(y)
    <2>1. PICK y \in Seat : h \in DiceMsgs(y)
        BY <1>10
    <2>2. PICK d \in Die : h = DiceMsg(y, d)
        BY <2>1 DEF DiceMsgs
    <2>3. view' = view
        BY <1>1, <1>6, <2>1, RepliesApart
    <2>4. /\ down[s] # <<>> /\ Head(down[s]) = DiceMsg(y, d) /\ down'[s] = Tail(down[s])
          /\ down'[t] = down[t] /\ dice'[s] = [dice[s] EXCEPT ![y] = d] /\ dice'[t] = dice[t]
          /\ phase'[t] = phase[t]
        BY <1>1, <2>2
    <2> HIDE DEF h
    <2> QED
        BY <1>2, <1>3, <2>3, <2>4, DiceReceivedFirst
<1> QED
    BY <1>1, <1>7, <1>8, <1>9, <1>10, DownKinds

LEMMA ServerFirst ==
    ASSUME TypeInv, NEW s \in Seat, NEW t \in Seat, t = Other(s), s = Other(t), Both,
           FirstInv(s), FirstInv(t), HandleMessage(s)
    PROVE  FirstInv(s)' /\ FirstInv(t)'
<1>1. CASE HandleCheckIn(s) \/ RefuseCheckIn(s)
    BY <1>1, CheckInFirst
<1>2. CASE HandleGameStateRequest(s)
    BY <1>2, StateFirst
<1>3. CASE HandleTransaction(s)
    BY <1>3, WriteFirst
<1>4. CASE HandleRollRequest(s)
    BY <1>4, RollFirst
<1>5. ASSUME HandleNewMatch(s) PROVE FALSE
    <2>1. up[s] # <<>> /\ Head(up[s]) = MatchRequest /\ up'[s] = Tail(up[s])
        BY <1>5, MatchRequestTaken
    <2>2. MatchUp(s)
        BY <2>1, UpTaken, OneFacts DEF MatchUp
    <2> QED
        BY <2>2 DEF FirstInv, AskOnce
<1> QED
    BY <1>1, <1>2, <1>3, <1>4, <1>5 DEF HandleMessage

LEMMA ClientFirst ==
    ASSUME TypeInv, NEW s \in Seat, NEW t \in Seat, t = Other(s), s = Other(t), Both,
           FirstInv(s), FirstInv(t), Client(s), ~Leave(s), ~NewMatch(s)
    PROVE  FirstInv(s)' /\ FirstInv(t)'
<1>1. CASE Join(s)
    BY <1>1, JoinFirst
<1>2. CASE CheckInAgain(s) \/ Garbage(s)
    BY <1>2, SaidFirst
<1>3. CASE Begin(s) \/ Move(s) \/ EndMatch(s)
    <2>1. /\ MyTurn(s)
          /\ \E w \in Writes(s) :
               /\ SendTransaction(s, w.items)
               /\ w = BeginTx => Stage(view[s]) = "notInit"
               /\ w \in Moves(s) =>
                    \/ Stage(view[s]) = "move"
                    \/ Stage(view[s]) = "initialRoll" /\ \A y \in Seat : dice[s][y] # -1
               /\ w = EndTx => Stage(view[s]) = "move"
        BY <1>3, WritesMade
    <2>2. PICK w \in Writes(s) :
               /\ SendTransaction(s, w.items)
               /\ w = BeginTx => Stage(view[s]) = "notInit"
               /\ w \in Moves(s) =>
                    \/ Stage(view[s]) = "move"
                    \/ Stage(view[s]) = "initialRoll" /\ \A y \in Seat : dice[s][y] # -1
               /\ w = EndTx => Stage(view[s]) = "move"
        BY <2>1
    <2>3. /\ phase[s] = "play" /\ Turn(view[s]) = s /\ view[s] \in States
          /\ up'[s] = up[s] \o <<w>> /\ up'[t] = up[t]
          /\ view' = [view EXCEPT ![s] = ApplyAll(view[s], w.items)]
          /\ UNCHANGED <<seated, serverVars, down, phase, got, dice, again>>
        BY <2>1, <2>2, Written
    <2>4. Ready(s, w)
        BY <2>2, <2>3 DEF Ready
    <2>5. UNCHANGED <<down, state, initialRoll, dice, phase>>
        BY <2>3 DEF serverVars
    <2>6. phase[s] # "out"
        BY <2>3
    <2> QED
        BY <2>3, <2>4, <2>5, <2>6, WrittenFirst
<1>4. CASE Roll(s)
    BY <1>4, RollAskedFirst
<1>5. CASE Receive(s)
    BY <1>5, ReceiveFirst
<1> QED
    BY <1>1, <1>2, <1>3, <1>4, <1>5 DEF Client

\* Who has begun another match stays one that has.
LEMMA StillFirst ==
    ASSUME TypeInv, [Next]_vars, ~again'
    PROVE  ~again /\ \A s \in Seat : ~NewMatch(s)
<1>1. \A s \in Seat : ~NewMatch(s)
    BY DEF NewMatch
<1>2. CASE UNCHANGED vars
    BY <1>1, <1>2 DEF vars, clientVars
<1>3. ASSUME NEW s \in Seat, HandleMessage(s) PROVE again' = again
    BY <1>3 DEF HandleMessage, HandleCheckIn, RefuseCheckIn, HandleGameStateRequest,
                HandleTransaction, HandleRollRequest, HandleNewMatch, clientVars
<1>4. ASSUME NEW s \in Seat, Client(s) PROVE again' = again
    <2>1. ~NewMatch(s)
        BY <1>1
    <2>2. CASE Join(s) \/ CheckInAgain(s) \/ Garbage(s) \/ Roll(s)
        BY <2>2 DEF Join, CheckInAgain, Garbage, Roll, clientVars
    <2>3. CASE Begin(s) \/ Move(s) \/ EndMatch(s)
        BY <2>3 DEF Begin, Move, EndMatch, SendTransaction
    <2>4. CASE Receive(s)
        BY <2>4 DEF Receive
    <2>5. CASE Leave(s)
        BY <2>5 DEF Leave
    <2> QED
        BY <1>4, <2>1, <2>2, <2>3, <2>4, <2>5 DEF Client
<1> QED
    BY <1>1, <1>2, <1>3, <1>4 DEF Next

LEMMA FirstMatchKept == TypeInv /\ FirstMatch /\ [Next]_vars => FirstMatch'
<1> SUFFICES ASSUME TypeInv, FirstMatch, [Next]_vars, Both', ~again'
             PROVE  \A s \in Seat : FirstInv(s)'
    BY DEF FirstMatch
<1>1. Both /\ ~again /\ (\A s \in Seat : ~Leave(s) /\ ~NewMatch(s))
    BY GoneForGood, StillFirst
<1>2. \A s \in Seat : FirstInv(s)
    BY <1>1 DEF FirstMatch
<1>3. CASE UNCHANGED vars
    <2> SUFFICES ASSUME NEW s \in Seat PROVE FirstInv(s)'
        OBVIOUS
    <2>1. PICK t \in Seat : t = Other(s) /\ s = Other(t)
        BY SeatFacts
    <2>2. UNCHANGED <<up, down, state, initialRoll, view, dice, phase>>
        BY <1>3 DEF vars, serverVars, clientVars
    <2>3. UpLike(s) /\ UpLike(t) /\ DownLike(s) /\ DownLike(t)
        BY <2>2, UpStays, DownStays
    <2> QED
        BY <1>2, <2>1, <2>2, <2>3, FirstKept
<1>4. ASSUME NEW s \in Seat, HandleMessage(s) \/ Client(s) PROVE \A x \in Seat : FirstInv(x)'
    <2>1. PICK t \in Seat : t = Other(s) /\ s = Other(t) /\ \A x \in Seat : x = s \/ x = t
        BY SeatFacts
    <2>2. FirstInv(s) /\ FirstInv(t) /\ ~Leave(s) /\ ~NewMatch(s)
        BY <1>1, <1>2
    <2>3. FirstInv(s)' /\ FirstInv(t)'
        BY <1>1, <1>4, <2>1, <2>2, ServerFirst, ClientFirst
    <2> QED
        BY <2>1, <2>3
<1> QED
    BY <1>3, <1>4 DEF Next

LEMMA FirstAtFirst == Init => FirstMatch
<1> SUFFICES ASSUME Init, NEW s \in Seat PROVE FirstInv(s)
    BY DEF FirstMatch
<1>1. Other(s) \in Seat
    BY SeatFacts
<1>2. /\ \A x \in Seat : up[x] = <<>> /\ down[x] = <<>>
      /\ view[s] = NoView /\ state = NewState
      /\ \A y \in Seat : initialRoll[y] = -1 /\ dice[s][y] = -1
    BY DEF Init, NoRoll
<1>3. /\ \A S : ~Has(<<>>, S) /\ Once(<<>>, S)
      /\ \A S, T : Before(<<>>, S, T)
    BY NoMessage
<1>4. AskOnce(s)
    BY <1>2, <1>3 DEF AskOnce, MatchUp, StateUp, StateDown
<1>5. WriteOnce(s)
    BY <1>1, <1>2, <1>3 DEF WriteOnce, Writing, WriteUp, WriteDown
<1>6. ViewFits(s)
    <2>1. \A st \in States : ~Holds(s, st)
        BY <1>2, <1>3, StateFacts DEF Holds
    <2> QED
        BY <1>2, <1>3, <2>1 DEF ViewFits
<1>7. RollOnce(s)
    <2>1. Stage(state) = "notInit"
        BY <1>2, StateFacts
    <2> QED
        BY <1>2, <1>3, <2>1 DEF RollOnce, RollUp
<1>8. DiceFit(s)
    BY <1>2, <1>3 DEF DiceFit, DiceDown
<1> QED
    BY <1>4, <1>5, <1>6, <1>7, <1>8 DEF FirstInv

LEMMA FirstAgrees == TypeInv /\ FirstMatch => ClientsAgree
<1> SUFFICES ASSUME TypeInv, FirstMatch, ~again, \A x \in Seat : phase[x] = "play"
             PROVE  /\ \E x \in Seat : ~MyTurn(x)
                    /\ Quiet => \A x \in Seat : view[x] = state /\ dice[x] = initialRoll
    BY DEF ClientsAgree
<1>1. \A x \in Seat : FirstInv(x) /\ view[x] \in States
    BY DEF FirstMatch, Both, TypeInv, ClientType
<1>2. ASSUME \A x \in Seat : MyTurn(x) PROVE FALSE
    <2>1. PICK s \in Seat, t \in Seat : t = Other(s) /\ s = Other(t) /\ s # t
        BY SeatFacts
    <2>2. Turn(view[s]) = s /\ Turn(view[t]) = t
        BY <1>2 DEF MyTurn, Turn
    <2>3. ~Writing(s) /\ ~Writing(t)
        BY <1>1, <2>1, <2>2, TurnIsFree
    <2>4. view[s] = state /\ view[t] = state
        BY <1>1, <2>1, <2>3, Known DEF Writing
    <2> QED
        BY <2>1, <2>2, <2>4
<1>3. ASSUME Quiet, NEW x \in Seat PROVE view[x] = state /\ dice[x] = initialRoll
    <2>1. PICK y \in Seat : y = Other(x) /\ x = Other(y)
        BY SeatFacts
    <2>2. up[x] = <<>> /\ down[x] = <<>> /\ \A S : ~Has(<<>>, S)
        BY <1>3, NoMessage DEF Quiet
    <2>3. ~WriteUp(x) /\ ~WriteDown(x) /\ \A z : ~DiceDown(x, z)
        BY <2>2 DEF WriteUp, WriteDown, DiceDown
    <2>4. view[x] = state
        BY <1>1, <2>1, <2>3, Known
    <2>5. dice[x] \in Rolls /\ initialRoll \in Rolls
        BY DEF TypeInv, ClientType, ServerType
    <2>6. \A z \in Seat : dice[x][z] = initialRoll[z]
        BY <1>1, <2>3 DEF FirstInv, DiceFit
    <2> QED
        BY <2>4, <2>5, <2>6 DEF Rolls
<1> QED
    BY <1>2, <1>3

\* In the first match the two never both think it is their turn, and when nothing is
\* under way they have the state and the rolls of the server: no write is lost to one
\* of them or applied twice, whenever it asks for the state (handleTransaction,
\* handleGameStateRequest, handleRollRequest).
THEOREM CopiesAgree == Spec => []ClientsAgree
<1>1. Init => TypeInv /\ FirstMatch
    BY TypesAtFirst, FirstAtFirst
<1>2. TypeInv /\ FirstMatch /\ [Next]_vars => (TypeInv /\ FirstMatch)'
    BY TypesKept, FirstMatchKept
<1>3. TypeInv /\ FirstMatch => ClientsAgree
    BY FirstAgrees
<1> QED
    BY <1>1, <1>2, <1>3, PTL DEF Spec

=============================================================================
