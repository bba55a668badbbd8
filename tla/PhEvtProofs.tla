----------------------------- MODULE PhEvtProofs -----------------------------
(***************************************************************************)
(* Theorems about the event parser for every table of events and every     *)
(* text that has the parts of InputsAssumption.                            *)
(***************************************************************************)
EXTENDS PhEvt, FiniteSetTheorems, SequenceTheorems, TLAPS

Stages == {"begin", "event", "umask", "cmask", "modes", "letters", "word", "done"}
(* An event is found in all stages behind "umask".                         *)
HasEvent == {"umask", "cmask", "modes", "letters", "word"}
FieldSet ==
  [edge_triggered : {0, 1}, evt_num : Bytes, umask_val : Bytes, user : {0, 1}, os : {0, 1},
   anythread : {0, 1}, inv : {0, 1}, cmask : Bytes]

FieldsInv ==
  /\ input \in Inputs /\ s \in Seq(Tokens) /\ umasks \in Seq(Umask) /\ stage \in Stages
  /\ f \in FieldSet
  /\ stage \in HasEvent => f.evt_num # 0
  /\ stage # "done" => cfg = Zero
  /\ stage = "done" => cfg = Zero \/ (cfg = Word(f) /\ f.evt_num # 0)

-----------------------------------------------------------------------------
(* The least element of a set of positions.                                *)
LEMMA MinOfNat ==
  ASSUME NEW S, S \subseteq Nat, S # {}
  PROVE  Min(S) \in S /\ \A n \in S : Min(S) <= n
<1> DEFINE T == {1 .. n : n \in S}
<1>1. T \subseteq FiniteSubsetsOf(Nat) /\ T # {}
  <2>1. ASSUME NEW n \in S PROVE 1 .. n \in FiniteSubsetsOf(Nat)
    <3>1. IsFiniteSet(1 .. n) /\ 1 .. n \in SUBSET Nat
      BY FS_Interval
    <3> QED BY <3>1 DEF FiniteSubsetsOf
  <2>2. PICK n \in S : TRUE
    OBVIOUS
  <2>3. 1 .. n \in T
    OBVIOUS
  <2> QED BY <2>1, <2>3
<1>2. PICK X \in T : \A Y \in T : <<Y, X>> \notin StrictSubsetOrdering(Nat)
  <2> HIDE DEF T
  <2> QED BY <1>1, FS_StrictSubsetOrderingWellFounded, WFMin
<1>3. PICK m \in S : X = 1 .. m
  OBVIOUS
<1>4. ASSUME NEW n \in S PROVE m <= n
  <2>1. <<1 .. n, 1 .. m>> \notin StrictSubsetOrdering(Nat)
    BY <1>2, <1>3
  <2>2. ~ (1 .. n \subseteq 1 .. m /\ 1 .. n # 1 .. m)
    BY <2>1 DEF StrictSubsetOrdering
  <2>3. SUFFICES ASSUME n < m PROVE FALSE
    OBVIOUS
  <2>4. m \in 1 .. m /\ m \notin 1 .. n /\ 1 .. n \subseteq 1 .. m
    BY <2>3
  <2> QED BY <2>2, <2>4
<1> QED
  BY <1>4 DEF Min

(* The numbers of a byte.                                                  *)
LEMMA ByteRange ==
  /\ \A n : n \in Bytes <=> n \in Nat /\ n <= 255
  /\ \A n \in Nat : n % 256 \in Bytes
<1>1. \A n : n \in Bytes <=> n \in Nat /\ n <= 255
  BY DEF Bytes
<1>2. \A n \in Nat : n % 256 \in Nat /\ n % 256 <= 255
  OBVIOUS
<1> QED BY <1>1, <1>2

(* The kinds of tokens.                                                    *)
LEMMA PlainTokens ==
  /\ Pieces \subseteq Plain /\ Plain \subseteq Tokens
  /\ \A t \in Pieces : t.k = "name"
  /\ \A t \in Plain : t.k # "sym"
BY DEF Pieces, Plain, Tokens

LEMMA Numbers ==
  /\ \A n \in Nat : Num(n) \in Plain
  /\ \A n : Num(n).k = "num" /\ Num(n).v = n
  /\ \A t \in Tokens : t.k = "num" => t.v \in Nat /\ t = Num(t.v)
BY DEF Pieces, Plain, Tokens, Num

LEMMA Symbols ==
  /\ \A c \in {"*", ".", "<", ">=", ":"} : Sym(c) \in Tokens
  /\ \A c : Sym(c).k = "sym" /\ Sym(c).v = c
BY DEF Tokens, Sym

(* The entries of the tables.                                              *)
LEMMA Entries ==
  ASSUME NEW i \in DOMAIN EventList
  PROVE  /\ EventList[i] \in Event /\ EventList[i] \in Range(EventList)
         /\ EventList[i].evt_num \in Bytes \ {0} /\ EventList[i].umasks \in Seq(Umask)
         /\ EventList[i].name \in Seq(Pieces) /\ EventList[i].name # <<>>
<1>1. EventList[i] \in Event
  BY EvtAssumption
<1> QED BY <1>1 DEF Event, Range

LEMMA Umasks ==
  ASSUME NEW us \in Seq(Umask), NEW j \in DOMAIN us
  PROVE  /\ us[j].umask_val \in Bytes /\ us[j].name \in Seq(Pieces) /\ us[j].name # <<>>
         /\ us[j] \in Range(us)
<1>1. us[j] \in Umask
  OBVIOUS
<1> QED BY <1>1 DEF Umask, Range

LEMMA PositionsOfEvents == Named \in SUBSET Nat /\ Numbered \in SUBSET Nat
<1>1. DOMAIN EventList \in SUBSET Nat
  BY EvtAssumption
<1> QED BY <1>1 DEF Named, Numbered

(* What the parts of a text are.                                           *)
LEMMA PartsOf ==
  ASSUME NEW p \in Inputs
  PROVE  /\ p.star \in BOOLEAN /\ p.dot \in BOOLEAN
         /\ p.event \in Seq(Plain) /\ p.umask \in Seq(Plain) /\ p.operand \in Seq(Plain)
         /\ p.cmp \in {<<>>, <<Sym("<")>>, <<Sym(">=")>>} /\ p.modes \in Seq(Tokens)
         /\ p.cmp = <<>> => p.operand = <<>>
         /\ p.modes = <<>> \/ p.modes[1] = Sym(":")
<1>1. p \in Parts
  BY InputsAssumption
<1> QED BY <1>1, InputsAssumption DEF Parts

LEMMA PartsTokens ==
  ASSUME NEW p \in Inputs
  PROVE  /\ p.event \in Seq(Tokens) /\ p.umask \in Seq(Tokens) /\ p.cmp \in Seq(Tokens)
         /\ p.operand \in Seq(Tokens) /\ p.modes \in Seq(Tokens)
         /\ <<Sym("*")>> \in Seq(Tokens) /\ <<Sym(".")>> \in Seq(Tokens) /\ <<>> \in Seq(Tokens)
<1>1. \A c \in {"*", ".", "<", ">=", ":"} : <<Sym(c)>> \in Seq(Tokens)
  BY Symbols
<1>2. p.event \in Seq(Tokens) /\ p.umask \in Seq(Tokens) /\ p.operand \in Seq(Tokens)
  BY PartsOf, PlainTokens, SeqMonotonic
<1>3. <<Sym("<")>> \in Seq(Tokens) /\ <<Sym(">=")>> \in Seq(Tokens) /\ <<>> \in Seq(Tokens)
  BY <1>1
<1>4. p.cmp \in Seq(Tokens)
  <2>1. p.cmp = <<>> \/ p.cmp = <<Sym("<")>> \/ p.cmp = <<Sym(">=")>>
    BY PartsOf
  <2> QED BY <2>1, <1>3
<1> QED BY <1>1, <1>2, <1>4, PartsOf

LEMMA TextTokens ==
  ASSUME NEW p \in Inputs
  PROVE  Text(p) \in Seq(Tokens)
<1> DEFINE star == IF p.star THEN <<Sym("*")>> ELSE <<>>
           dot == IF p.dot THEN <<Sym(".")>> ELSE <<>>
<1>1. star \in Seq(Tokens) /\ dot \in Seq(Tokens)
  BY PartsTokens
<1>2. Text(p) = star \o (p.event \o (dot \o (p.umask \o Rest(p))))
  BY DEF Text
<1>3. \A x, y \in Seq(Tokens) : x \o y \in Seq(Tokens)
  OBVIOUS
<1>4. Rest(p) \in Seq(Tokens)
  BY <1>3, PartsTokens DEF Rest
<1> HIDE DEF star, dot
<1> QED BY <1>1, <1>2, <1>3, <1>4, PartsTokens

-----------------------------------------------------------------------------
(* What is left of a text, and the number at its beginning.                *)
LEMMA Remainders ==
  ASSUME s \in Seq(Tokens)
  PROVE  /\ Value \in Nat /\ Behind \in Seq(Tokens)
         /\ s # <<>> => Tail(s) \in Seq(Tokens)
         /\ Behind # <<>> => Tail(Behind) \in Seq(Tokens)
         /\ \A n \in Nat : Drop(n) \in Seq(Tokens)
         /\ Digit(2) => s[2].v \in Nat
<1>1. \A x \in Seq(Tokens) : x # <<>> => Tail(x) \in Seq(Tokens)
  OBVIOUS
<1>2. \A i \in 1 .. Len(s) : s[i] \in Tokens
  OBVIOUS
<1>3. \A n \in {1, 2} : Digit(n) => s[n].v \in Nat
  BY <1>2, Numbers DEF Digit
<1>4. Digit(1) => s # <<>>
  BY DEF Digit
<1>5. ASSUME NEW n \in Nat PROVE Drop(n) \in Seq(Tokens)
  <2>1. \A i \in n + 1 .. Len(s) : s[i] \in Tokens
    BY <1>2
  <2>2. Len(s) \in Nat
    OBVIOUS
  <2> QED BY <2>1, <2>2, SubSeqProperties DEF Drop
<1> QED BY <1>1, <1>3, <1>4, <1>5 DEF Value, Behind

(* Reading keeps the fields within their widths.                           *)
LEMMA FieldsInit ==
  ASSUME Init
  PROVE  FieldsInv
<1>1. 0 \in Bytes
  BY ByteRange
<1>2. Defaults \in FieldSet
  BY <1>1 DEF Defaults, FieldSet
<1>3. <<>> \in Seq(Umask)
  OBVIOUS
<1> QED BY <1>2, <1>3, TextTokens DEF Init, FieldsInv, Stages, HasEvent

LEMMA FieldsTake ==
  ASSUME FieldsInv, NEW i \in DOMAIN EventList, NEW rest \in Seq(Tokens), Take(i, rest),
         stage = "event"
  PROVE  FieldsInv'
<1>1. EventList[i].evt_num \in Bytes \ {0} /\ EventList[i].umasks \in Seq(Umask)
  BY Entries
<1>2. f' \in FieldSet /\ f'.evt_num = EventList[i].evt_num
  BY <1>1 DEF Take, FieldsInv, FieldSet
<1> QED BY <1>1, <1>2 DEF Take, Goto, FieldsInv, Stages, HasEvent

LEMMA FieldsReject ==
  ASSUME FieldsInv, Reject, stage # "done"
  PROVE  FieldsInv'
BY DEF Reject, FieldsInv, Stages, HasEvent

LEMMA FieldsNext ==
  ASSUME FieldsInv, [Next]_vars
  PROVE  FieldsInv'
<1> USE DEF Stages, HasEvent
<1>0. s \in Seq(Tokens) /\ f \in FieldSet /\ input \in Inputs /\ umasks \in Seq(Umask)
  BY DEF FieldsInv
<1>1. CASE Begin
  <2>1. CASE Reject /\ stage = "begin"
    BY <2>1, FieldsReject
  <2>2. CASE stage = "begin" /\ Goto("event", s) /\ UNCHANGED <<umasks, f>>
    BY <2>2 DEF FieldsInv, Goto
  <2>3. CASE /\ stage = "begin" /\ Begins("*") /\ Goto("event", Tail(s))
             /\ f' = [f EXCEPT !.edge_triggered = 1] /\ UNCHANGED umasks
    <3>1. f' \in FieldSet
      BY <1>0, <2>3 DEF FieldSet
    <3>2. Tail(s) \in Seq(Tokens)
      BY <1>0, <2>3, Remainders DEF Begins
    <3> QED BY <2>3, <3>1, <3>2 DEF FieldsInv, Goto
  <2> QED BY <1>1, <2>1, <2>2, <2>3 DEF Begin
<1>2. CASE EventName
  <2>1. Min(Named) \in Named
    BY <1>2, PositionsOfEvents, MinOfNat DEF EventName
  <2>2. Min(Named) \in DOMAIN EventList
    BY <2>1 DEF Named
  <2>3. Len(EventList[Min(Named)].name) + 1 \in Nat
    BY <2>2, Entries
  <2>4. Drop(Len(EventList[Min(Named)].name) + 1) \in Seq(Tokens)
    BY <1>0, <2>3, Remainders
  <2> QED BY <1>2, <2>2, <2>4, FieldsTake DEF EventName
<1>3. CASE EventNumber
  <2>1. CASE stage = "event" /\ Behind # <<>> /\ Numbered # {} /\ Take(Min(Numbered), Tail(Behind))
    <3>1. Min(Numbered) \in DOMAIN EventList
      BY <2>1, PositionsOfEvents, MinOfNat DEF Numbered
    <3>2. Tail(Behind) \in Seq(Tokens)
      BY <1>0, <2>1, Remainders
    <3> QED BY <2>1, <3>1, <3>2, FieldsTake
  <2>2. CASE stage = "event" /\ Reject
    BY <2>2, FieldsReject
  <2> QED BY <1>3, <2>1, <2>2 DEF EventNumber
<1>4. CASE UmaskName
  <2> DEFINE found == {j \in DOMAIN umasks : Fits(j)}
  <2>1. found \subseteq Nat /\ found # {}
    BY <1>0, <1>4 DEF UmaskName
  <2>2. Min(found) \in DOMAIN umasks
    BY <2>1, MinOfNat
  <2>3. umasks[Min(found)].umask_val \in Bytes /\ Len(umasks[Min(found)].name) \in Nat
    BY <1>0, <2>2, Umasks
  <2>4. /\ stage = "umask" /\ Goto("cmask", Drop(Len(umasks[Min(found)].name)))
        /\ f' = [f EXCEPT !.umask_val = umasks[Min(found)].umask_val] /\ UNCHANGED umasks
    BY <1>4 DEF UmaskName
  <2> HIDE DEF found
  <2>5. Drop(Len(umasks[Min(found)].name)) \in Seq(Tokens)
    BY <1>0, <2>3, Remainders
  <2>6. f' \in FieldSet /\ f'.evt_num = f.evt_num
    BY <1>0, <2>3, <2>4 DEF FieldSet
  <2> QED BY <2>4, <2>5, <2>6 DEF FieldsInv, Goto
<1>5. CASE UmaskNumber
  <2>1. CASE /\ stage = "umask" /\ Value <= 255 /\ Goto("cmask", Behind)
             /\ f' = [f EXCEPT !.umask_val = Value] /\ UNCHANGED umasks
    <3>1. Value \in Bytes /\ Behind \in Seq(Tokens)
      BY <1>0, <2>1, Remainders, ByteRange
    <3>2. f' \in FieldSet /\ f'.evt_num = f.evt_num
      BY <1>0, <2>1, <3>1 DEF FieldSet
    <3> QED BY <2>1, <3>1, <3>2 DEF FieldsInv, Goto
  <2>2. CASE stage = "umask" /\ Reject
    BY <2>2, FieldsReject
  <2> QED BY <1>5, <2>1, <2>2 DEF UmaskNumber
<1>6. CASE Cmask
  <2>1. CASE /\ stage = "cmask" /\ Goto("modes", Drop(2)) /\ UNCHANGED umasks /\ Digit(2)
             /\ f' = [f EXCEPT !.cmask = Byte(s[2].v), !.inv = IF Begins("<") THEN 1 ELSE 0]
    <3>1. s[2].v \in Nat /\ Drop(2) \in Seq(Tokens)
      BY <1>0, <2>1, Remainders
    <3>2. Byte(s[2].v) \in Bytes
      BY <3>1, ByteRange DEF Byte
    <3>3. f' \in FieldSet /\ f'.evt_num = f.evt_num
      BY <1>0, <2>1, <3>2 DEF FieldSet
    <3> QED BY <2>1, <3>1, <3>3 DEF FieldsInv, Goto
  <2>2. CASE stage = "cmask" /\ Goto("modes", s) /\ UNCHANGED <<umasks, f>>
    BY <2>2 DEF FieldsInv, Goto
  <2> QED BY <1>6, <2>1, <2>2 DEF Cmask, Comparison
<1>7. CASE Modes
  <2>1. CASE /\ stage = "modes" /\ Begins(":") /\ Goto("letters", Tail(s)) /\ UNCHANGED umasks
             /\ f' = [f EXCEPT !.anythread = 0, !.user = 0, !.os = 0]
    <3>1. Tail(s) \in Seq(Tokens)
      BY <1>0, <2>1, Remainders DEF Begins
    <3>2. f' \in FieldSet /\ f'.evt_num = f.evt_num
      BY <1>0, <2>1 DEF FieldSet
    <3> QED BY <2>1, <3>1, <3>2 DEF FieldsInv, Goto
  <2>2. CASE stage = "modes" /\ Goto("word", s) /\ UNCHANGED <<umasks, f>>
    BY <2>2 DEF FieldsInv, Goto
  <2> QED BY <1>7, <2>1, <2>2 DEF Modes
<1>8. CASE Letter
  <2>1. CASE /\ stage = "letters" /\ s # <<>> /\ IsMode(s[1]) /\ Goto("letters", Tail(s))
             /\ f' = [f EXCEPT ![Letters[s[1].v]] = 1] /\ UNCHANGED umasks
    <3>1. Tail(s) \in Seq(Tokens)
      BY <1>0, <2>1, Remainders
    <3>2. Letters[s[1].v] \in {"anythread", "user", "os"}
      BY <2>1 DEF IsMode, Letters
    <3>3. f' \in FieldSet /\ f'.evt_num = f.evt_num
      BY <1>0, <2>1, <3>2 DEF FieldSet
    <3> QED BY <2>1, <3>1, <3>3 DEF FieldsInv, Goto
  <2>2. CASE stage = "letters" /\ Goto("word", s) /\ UNCHANGED <<umasks, f>>
    BY <2>2 DEF FieldsInv, Goto
  <2> QED BY <1>8, <2>1, <2>2 DEF Letter
<1>9. CASE Finish
  BY <1>9 DEF FieldsInv, Finish
<1>10. CASE UNCHANGED vars
  BY <1>10 DEF FieldsInv, vars, Word
<1> QED BY <1>1, <1>2, <1>3, <1>4, <1>5, <1>6, <1>7, <1>8, <1>9, <1>10 DEF Next

(* Every number that is read ends up within its field.                     *)
THEOREM FieldsInvHolds == Spec => []FieldsInv
<1>1. Init => FieldsInv
  BY FieldsInit
<1>2. FieldsInv /\ [Next]_vars => FieldsInv'
  BY FieldsNext
<1> QED BY <1>1, <1>2, PTL DEF Spec

(* The halves of a word as digits of mixed size.                           *)
LEMMA Halves ==
  ASSUME NEW g \in FieldSet
  PROVE  /\ Word(g).hi \in Nat /\ Word(g).hi < 65536 /\ Word(g).lo \in Nat /\ Word(g).lo < 65536
         /\ BitsOf(Word(g).hi, 8, 4) = 0 /\ BitsOf(Word(g).hi, 64, 2) = 1
         /\ BitsOf(Word(g).hi, 4, 2) = g.edge_triggered /\ BitsOf(Word(g).lo, 1, 256) = g.evt_num
         /\ BitsOf(Word(g).lo, 256, 256) = g.umask_val /\ BitsOf(Word(g).hi, 1, 2) = g.user
         /\ BitsOf(Word(g).hi, 2, 2) = g.os /\ BitsOf(Word(g).hi, 32, 2) = g.anythread
         /\ BitsOf(Word(g).hi, 128, 2) = g.inv /\ BitsOf(Word(g).hi, 256, 256) = g.cmask
<1> DEFINE c == g.cmask  i == g.inv  a == g.anythread  e == g.edge_triggered  o == g.os  u == g.user
           m == g.umask_val  n == g.evt_num
<1>1. /\ c \in Nat /\ c <= 255 /\ m \in Nat /\ m <= 255 /\ n \in Nat /\ n <= 255
  <2>1. c \in Bytes /\ m \in Bytes /\ n \in Bytes
    BY DEF FieldSet
  <2> QED BY <2>1, ByteRange
<1>2. i \in {0, 1} /\ a \in {0, 1} /\ e \in {0, 1} /\ o \in {0, 1} /\ u \in {0, 1}
  BY DEF FieldSet
<1>3. /\ Word(g).hi = c * 256 + i * 128 + 64 + a * 32 + e * 4 + o * 2 + u
      /\ Word(g).lo = m * 256 + n
  BY DEF Word
<1> HIDE DEF c, i, a, e, o, u, m, n
<1>4. Word(g).hi \in Nat /\ Word(g).hi < 65536 /\ Word(g).lo \in Nat /\ Word(g).lo < 65536
  BY <1>1, <1>2, <1>3
<1>5. BitsOf(Word(g).lo, 1, 256) = n /\ BitsOf(Word(g).lo, 256, 256) = m
  BY <1>1, <1>3 DEF BitsOf
<1>6. BitsOf(Word(g).hi, 1, 2) = u /\ BitsOf(Word(g).hi, 2, 2) = o /\ BitsOf(Word(g).hi, 4, 2) = e
  BY <1>1, <1>2, <1>3 DEF BitsOf
<1>7. BitsOf(Word(g).hi, 8, 4) = 0 /\ BitsOf(Word(g).hi, 32, 2) = a /\ BitsOf(Word(g).hi, 64, 2) = 1
  BY <1>1, <1>2, <1>3 DEF BitsOf
<1>8. BitsOf(Word(g).hi, 128, 2) = i /\ BitsOf(Word(g).hi, 256, 256) = c
  BY <1>1, <1>2, <1>3 DEF BitsOf
<1> QED BY <1>4, <1>5, <1>6, <1>7, <1>8 DEF c, i, a, e, o, u, m, n

(* Apart, for every table and every text: the fields of a configuration    *)
(* word do not overlap.                                                    *)
THEOREM ApartHolds == Spec => []Apart
<1>1. FieldsInv => Apart
  <2>1. SUFFICES ASSUME FieldsInv, stage = "done", cfg # Zero PROVE Apart
    BY DEF Apart
  <2>2. cfg = Word(f) /\ f \in FieldSet
    BY <2>1 DEF FieldsInv
  <2>3. cfg.hi < 65536 /\ cfg.lo < 65536
    BY <2>2, Halves
  <2>4. _ph_parse_event(cfg) # Unsupported
    <3>1. BitsOf(65535, 8, 4) = 3
      BY DEF BitsOf
    <3>2. cfg.hi # 65535
      BY <2>2, <3>1, Halves
    <3>3. _ph_parse_event(cfg) = cfg
      BY <2>1 DEF _ph_parse_event
    <3> QED BY <3>2, <3>3 DEF Unsupported
  <2>5. f = [edge_triggered |-> f.edge_triggered, evt_num |-> f.evt_num, umask_val |-> f.umask_val,
             user |-> f.user, os |-> f.os, anythread |-> f.anythread, inv |-> f.inv, cmask |-> f.cmask]
    BY <2>2 DEF FieldSet
  <2> QED BY <2>2, <2>3, <2>4, <2>5, Halves DEF Apart
<1> QED BY <1>1, FieldsInvHolds, PTL

-----------------------------------------------------------------------------
(* What is left of a text at each stage, for a text with the parts p.      *)
Follow(p) == (IF p.dot THEN <<Sym(".")>> ELSE <<>>) \o (p.umask \o Rest(p))
Body(p) == p.event \o Follow(p)
AfterCmp(p) == IF Compares(p) THEN Tail(p.operand) \o p.modes ELSE Rest(p)

(* Where a name or a number must end.                                      *)
Stop(t) == t = <<>> \/ t[1].k = "sym"

(* Prefixes, position by position.                                         *)
LEMMA PrefixOf ==
  ASSUME NEW S, NEW a \in Seq(S), NEW b \in Seq(S)
  PROVE  IsPrefix(a, b) <=> Len(a) <= Len(b) /\ \A j \in 1 .. Len(a) : a[j] = b[j]
<1>1. SubSeq(a, 1, Len(a)) = a
  BY SubSeqFull
<1>2. ASSUME Len(a) <= Len(b)
      PROVE  /\ SubSeq(b, 1, Len(a)) \in Seq(S) /\ Len(SubSeq(b, 1, Len(a))) = Len(a)
             /\ \A j \in 1 .. Len(a) : SubSeq(b, 1, Len(a))[j] = b[j]
  <2>1. Len(a) \in Nat /\ \A j \in 1 .. Len(a) : b[j] \in S
    BY <1>2
  <2>2. /\ SubSeq(b, 1, Len(a)) \in Seq(S)
        /\ Len(SubSeq(b, 1, Len(a))) = IF 1 <= Len(a) THEN Len(a) - 1 + 1 ELSE 0
        /\ \A j \in 1 .. Len(a) - 1 + 1 : SubSeq(b, 1, Len(a))[j] = b[1 + j - 1]
    BY <2>1, SubSeqProperties
  <2> QED BY <2>1, <2>2
<1>3. ASSUME Len(a) <= Len(b), \A j \in 1 .. Len(a) : a[j] = b[j] PROVE a = SubSeq(b, 1, Len(a))
  BY <1>2, <1>3, SeqEqual
<1> QED BY <1>1, <1>2, <1>3 DEF IsPrefix

(* A text from its mth token on.                                           *)
LEMMA FromToken ==
  ASSUME NEW t \in Seq(Tokens), NEW m \in Nat, m >= 1
  PROVE  LET x == SubSeq(t, m, Len(t))
         IN  /\ x \in Seq(Tokens) /\ Len(x) = IF m <= Len(t) THEN Len(t) - m + 1 ELSE 0
             /\ \A i \in 1 .. Len(t) - m + 1 : x[i] = t[m + i - 1]
<1>1. Len(t) \in Int /\ m \in Int
  OBVIOUS
<1>2. \A i \in m .. Len(t) : t[i] \in Tokens
  OBVIOUS
<1> QED BY <1>1, <1>2, SubSeqProperties

(* A text behind its first part.                                           *)
LEMMA BehindPart ==
  ASSUME NEW h \in Seq(Tokens), NEW r \in Seq(Tokens)
  PROVE  /\ SubSeq(h \o r, Len(h) + 1, Len(h \o r)) = r
         /\ r # <<>> => SubSeq(h \o r, Len(h) + 2, Len(h \o r)) = Tail(r)
<1> DEFINE t == h \o r
<1>1. /\ t \in Seq(Tokens) /\ Len(t) = Len(h) + Len(r) /\ Len(h) \in Nat /\ Len(r) \in Nat
      /\ \A i \in 1 .. Len(h) + Len(r) : t[i] = IF i <= Len(h) THEN h[i] ELSE r[i - Len(h)]
  BY ConcatProperties
<1>2. \A i \in 1 .. Len(t) : t[i] \in Tokens
  BY <1>1
<1> HIDE DEF t
<1>3. SubSeq(t, Len(h) + 1, Len(t)) = r
  <2> DEFINE x == SubSeq(t, Len(h) + 1, Len(t))
  <2>1. /\ x \in Seq(Tokens)
        /\ Len(x) = IF Len(h) + 1 <= Len(t) THEN Len(t) - (Len(h) + 1) + 1 ELSE 0
        /\ \A i \in 1 .. Len(t) - (Len(h) + 1) + 1 : x[i] = t[Len(h) + 1 + i - 1]
    <3>1. Len(h) + 1 \in Nat /\ Len(h) + 1 >= 1
      BY <1>1
    <3> QED BY <1>1, <3>1, FromToken
  <2> HIDE DEF x
  <2>2. Len(x) = Len(r)
    BY <1>1, <2>1
  <2>3. ASSUME NEW i \in 1 .. Len(x) PROVE x[i] = r[i]
    <3>1. i \in 1 .. Len(t) - (Len(h) + 1) + 1 /\ Len(h) + 1 + i - 1 = Len(h) + i
      BY <1>1, <2>2
    <3>2. x[i] = t[Len(h) + i]
      BY <2>1, <3>1
    <3>3. t[Len(h) + i] = r[i]
      BY <1>1, <2>2
    <3> QED BY <3>2, <3>3
  <2>4. x = r
    BY <2>1, <2>2, <2>3, SeqEqual
  <2> QED BY <2>4 DEF x
<1>4. ASSUME r # <<>> PROVE SubSeq(t, Len(h) + 2, Len(t)) = Tail(r)
  <2> DEFINE x == SubSeq(t, Len(h) + 2, Len(t))
  <2>0. /\ Len(r) >= 1 /\ Tail(r) \in Seq(Tokens) /\ Len(Tail(r)) = Len(r) - 1
        /\ \A i \in 1 .. Len(Tail(r)) : Tail(r)[i] = r[i + 1]
    BY <1>4, HeadTailProperties
  <2>1. /\ x \in Seq(Tokens)
        /\ Len(x) = IF Len(h) + 2 <= Len(t) THEN Len(t) - (Len(h) + 2) + 1 ELSE 0
        /\ \A i \in 1 .. Len(t) - (Len(h) + 2) + 1 : x[i] = t[Len(h) + 2 + i - 1]
    <3>1. Len(h) + 2 \in Nat /\ Len(h) + 2 >= 1
      BY <1>1
    <3> QED BY <1>1, <3>1, FromToken
  <2> HIDE DEF x
  <2>2. Len(x) = Len(Tail(r))
    <3>1. Len(t) - (Len(h) + 2) + 1 = Len(r) - 1
      BY <1>1
    <3>2. Len(h) + 2 <= Len(t) <=> Len(r) >= 2
      BY <1>1
    <3>3. Len(x) = IF Len(r) >= 2 THEN Len(r) - 1 ELSE 0
      BY <2>1, <3>1, <3>2
    <3>4. Len(r) \in Nat /\ Len(r) >= 1
      BY <1>1, <2>0
    <3>5. \A n \in Nat : n >= 1 => (IF n >= 2 THEN n - 1 ELSE 0) = n - 1
      OBVIOUS
    <3>6. Len(x) = Len(r) - 1
      BY ONLY <3>3, <3>4, <3>5
    <3> QED BY <2>0, <3>6
  <2>3. ASSUME NEW i \in 1 .. Len(x) PROVE x[i] = Tail(r)[i]
    <3>1. i \in 1 .. Len(t) - (Len(h) + 2) + 1 /\ Len(h) + 2 + i - 1 = Len(h) + (i + 1)
      BY <1>1, <2>0, <2>2
    <3>2. x[i] = t[Len(h) + (i + 1)]
      BY <2>1, <3>1
    <3>3. i + 1 \in 1 .. Len(r)
      BY <1>1, <2>0, <2>2
    <3>4. t[Len(h) + (i + 1)] = r[i + 1]
      BY <1>1, <3>3
    <3> QED BY <2>0, <2>2, <3>2, <3>4
  <2>4. x = Tail(r)
    BY <2>0, <2>1, <2>2, <2>3, SeqEqual
  <2> QED BY <2>4 DEF x
<1> QED BY <1>3, <1>4 DEF t

(* A name fits exactly if it is the whole of what is written before the    *)
(* next symbol.                                                            *)
LEMMA NameFits ==
  ASSUME NEW a \in Seq(Pieces), NEW h \in Seq(Plain), NEW r \in Seq(Tokens), Stop(r)
  PROVE  IsPrefix(a, h \o r) /\ Stop(SubSeq(h \o r, Len(a) + 1, Len(h \o r))) <=> a = h
<1> DEFINE t == h \o r
<1>0. h \in Seq(Tokens) /\ a \in Seq(Tokens)
  BY PlainTokens, SeqMonotonic
<1>1. /\ t \in Seq(Tokens) /\ Len(t) = Len(h) + Len(r) /\ Len(h) \in Nat /\ Len(r) \in Nat
      /\ \A i \in 1 .. Len(h) + Len(r) : t[i] = IF i <= Len(h) THEN h[i] ELSE r[i - Len(h)]
  BY <1>0, ConcatProperties
<1>2. /\ \A i \in 1 .. Len(a) : a[i].k # "sym"
      /\ \A i \in 1 .. Len(h) : h[i].k # "sym"
      /\ Len(a) \in Nat
  BY PlainTokens
<1>3. \A i \in 1 .. Len(h) : t[i] = h[i]
  BY <1>1
<1>4. ASSUME a = h PROVE IsPrefix(a, t) /\ Stop(SubSeq(t, Len(a) + 1, Len(t)))
  <2>1. SubSeq(t, Len(a) + 1, Len(t)) = r
    BY <1>0, <1>4, BehindPart
  <2>2. IsPrefix(a, t)
    <3>1. Len(a) <= Len(t) /\ \A j \in 1 .. Len(a) : a[j] = t[j]
      BY <1>1, <1>3, <1>4
    <3> QED BY <1>0, <1>1, <3>1, PrefixOf
  <2> QED BY <2>1, <2>2
<1>5. ASSUME IsPrefix(a, t), Stop(SubSeq(t, Len(a) + 1, Len(t))) PROVE a = h
  <2>1. Len(a) <= Len(t) /\ \A j \in 1 .. Len(a) : a[j] = t[j]
    BY <1>0, <1>1, <1>5, PrefixOf
  <2>2. ~ Len(a) < Len(h)
    <3>1. SUFFICES ASSUME Len(a) < Len(h) PROVE FALSE
      OBVIOUS
    <3> DEFINE x == SubSeq(t, Len(a) + 1, Len(t))
    <3>2. Len(a) + 1 \in Nat /\ Len(a) + 1 >= 1
      BY <1>2
    <3>3. /\ Len(x) = IF Len(a) + 1 <= Len(t) THEN Len(t) - (Len(a) + 1) + 1 ELSE 0
          /\ \A i \in 1 .. Len(t) - (Len(a) + 1) + 1 : x[i] = t[Len(a) + 1 + i - 1]
          /\ x \in Seq(Tokens)
      BY <1>1, <3>2, FromToken
    <3> HIDE DEF x
    <3>4. Len(x) >= 1 /\ x[1] = t[Len(a) + 1]
      <4>1. Len(t) \in Nat /\ Len(t) >= Len(a) + 1 /\ Len(a) \in Nat
        BY <1>1, <1>2, <3>1
      <4>2. 1 \in 1 .. Len(t) - (Len(a) + 1) + 1 /\ Len(a) + 1 + 1 - 1 = Len(a) + 1
        BY <4>1
      <4>3. Len(x) >= 1
        BY <3>3, <4>1
      <4> QED BY <3>3, <4>2, <4>3
    <3>5. x[1].k # "sym" /\ x # <<>>
      BY <1>2, <1>3, <3>1, <3>3, <3>4
    <3> QED BY <1>5, <3>5 DEF Stop, x
  <2>3. ~ Len(a) > Len(h)
    <3>1. SUFFICES ASSUME Len(a) > Len(h) PROVE FALSE
      BY <1>1, <1>2
    <3>2. Len(r) >= 1 /\ t[Len(h) + 1] = r[1]
      BY <1>1, <1>2, <2>1, <3>1
    <3>3. a[Len(h) + 1] = r[1] /\ Len(h) + 1 \in 1 .. Len(a)
      BY <1>1, <1>2, <2>1, <3>1, <3>2
    <3>4. r # <<>>
      BY <3>2
    <3> QED BY <1>2, <3>3, <3>4 DEF Stop
  <2>4. Len(a) = Len(h)
    BY <1>1, <1>2, <2>2, <2>3
  <2>5. \A j \in 1 .. Len(a) : a[j] = h[j]
    BY <1>3, <2>1, <2>4
  <2> QED BY <1>0, <2>4, <2>5, SeqEqual
<1> QED BY <1>4, <1>5

(* The same for a name and the dot behind it.                              *)
LEMMA NameAndDot ==
  ASSUME NEW a \in Seq(Pieces), NEW h \in Seq(Plain), NEW r \in Seq(Tokens), Stop(r)
  PROVE  IsPrefix(a \o <<Sym(".")>>, h \o r) <=> a = h /\ r # <<>> /\ r[1] = Sym(".")
<1> DEFINE t == h \o r  d == <<Sym(".")>>
<1>0. h \in Seq(Tokens) /\ a \in Seq(Tokens) /\ d \in Seq(Tokens) /\ Len(d) = 1 /\ d[1] = Sym(".")
  BY PlainTokens, SeqMonotonic, Symbols
<1>1. /\ t \in Seq(Tokens) /\ Len(t) = Len(h) + Len(r) /\ Len(h) \in Nat /\ Len(r) \in Nat
      /\ \A i \in 1 .. Len(h) + Len(r) : t[i] = IF i <= Len(h) THEN h[i] ELSE r[i - Len(h)]
  BY <1>0, ConcatProperties
<1> DEFINE e == a \o d
<1>2. /\ e \in Seq(Tokens) /\ Len(e) = Len(a) + 1 /\ Len(a) \in Nat
      /\ \A i \in 1 .. Len(a) + 1 : e[i] = IF i <= Len(a) THEN a[i] ELSE d[i - Len(a)]
  BY <1>0, ConcatProperties
<1> HIDE DEF t, d, e
<1>3. /\ \A i \in 1 .. Len(a) : e[i] = a[i] /\ a[i].k # "sym"
      /\ e[Len(a) + 1] = Sym(".")
  BY <1>0, <1>2, PlainTokens
<1>4. \A i \in 1 .. Len(h) : t[i] = h[i] /\ h[i].k # "sym"
  <2>1. \A i \in 1 .. Len(h) : h[i] \in Plain
    OBVIOUS
  <2>2. \A i \in 1 .. Len(h) : t[i] = h[i]
    BY <1>1
  <2> QED BY <2>1, <2>2, PlainTokens
<1>5. IsPrefix(e, t) <=> Len(e) <= Len(t) /\ \A j \in 1 .. Len(e) : e[j] = t[j]
  <2>1. e \in Seq(Tokens) /\ t \in Seq(Tokens)
    BY <1>1, <1>2
  <2> QED BY <2>1, PrefixOf
<1>6. ASSUME a = h, r # <<>>, r[1] = Sym(".") PROVE IsPrefix(e, t)
  <2>1. Len(r) >= 1
    BY <1>6
  <2>2. t[Len(h) + 1] = r[1]
    BY <1>1, <2>1
  <2>3. ASSUME NEW j \in 1 .. Len(e) PROVE e[j] = t[j]
    <3>1. CASE j <= Len(a)
      BY <1>2, <1>3, <1>4, <1>6, <3>1
    <3>2. CASE j = Len(a) + 1
      BY <1>3, <1>6, <2>2, <3>2
    <3> QED BY <1>2, <3>1, <3>2
  <2> QED BY <1>1, <1>2, <1>5, <1>6, <2>1, <2>3
<1>7. ASSUME IsPrefix(e, t) PROVE a = h /\ r # <<>> /\ r[1] = Sym(".")
  <2>1. Len(a) + 1 <= Len(t) /\ \A j \in 1 .. Len(a) + 1 : e[j] = t[j]
    BY <1>2, <1>5, <1>7
  <2>2. t[Len(a) + 1].k = "sym"
    BY <1>2, <1>3, <2>1, Symbols
  <2>3. ~ Len(a) < Len(h)
    BY <1>1, <1>2, <1>4, <2>2
  <2>4. ~ Len(a) > Len(h)
    <3>1. SUFFICES ASSUME Len(a) > Len(h) PROVE FALSE
      BY <1>1, <1>2
    <3>2. Len(r) >= 1 /\ t[Len(h) + 1] = r[1]
      BY <1>1, <1>2, <2>1, <3>1
    <3>3. a[Len(h) + 1] = r[1] /\ Len(h) + 1 \in 1 .. Len(a)
      BY <1>1, <1>2, <1>3, <2>1, <3>1, <3>2
    <3>4. r # <<>>
      BY <3>2
    <3> QED BY <1>3, <3>3, <3>4 DEF Stop
  <2>5. Len(a) = Len(h)
    BY <1>1, <1>2, <2>3, <2>4
  <2>6. \A j \in 1 .. Len(a) : a[j] = h[j]
    BY <1>2, <1>3, <1>4, <2>1, <2>5
  <2>7. a = h
    BY <1>0, <2>5, <2>6, SeqEqual
  <2>8. Len(r) >= 1 /\ r[1] = t[Len(h) + 1]
    BY <1>1, <2>1, <2>5
  <2>9. t[Len(a) + 1] = Sym(".")
    BY <1>2, <1>3, <2>1
  <2> QED BY <2>5, <2>7, <2>8, <2>9
<1> QED BY <1>6, <1>7 DEF e, t, d

(* A number is read exactly up to where it must end, or there is nothing.  *)
LEMMA NumberEnds ==
  ASSUME NEW h \in Seq(Plain), NEW r \in Seq(Tokens), Stop(r), s = h \o r
  PROVE  /\ Stop(Behind) <=> h = <<>> \/ h = <<Num(Value)>>
         /\ Stop(Behind) => Behind = r
         /\ h = <<>> => Value = 0
         /\ \A n \in Nat : h = <<Num(n)>> => Value = n
<1>0. h \in Seq(Tokens)
  BY PlainTokens, SeqMonotonic
<1>1. /\ s \in Seq(Tokens) /\ Len(s) = Len(h) + Len(r) /\ Len(h) \in Nat /\ Len(r) \in Nat
      /\ \A i \in 1 .. Len(h) + Len(r) : s[i] = IF i <= Len(h) THEN h[i] ELSE r[i - Len(h)]
  BY <1>0, ConcatProperties
<1>2. /\ \A i \in 1 .. Len(h) : h[i] \in Plain /\ h[i].k # "sym"
      /\ \A i \in 1 .. Len(h) : s[i] = h[i]
  <2>1. \A i \in 1 .. Len(h) : h[i] \in Plain
    OBVIOUS
  <2> QED BY <1>1, <2>1, PlainTokens
<1>3. CASE h = <<>>
  <2>1. s = r
    BY <1>3, ConcatEmptySeq
  <2>2. ~ Digit(1)
    <3>1. ASSUME Len(r) >= 1 PROVE r[1].k # "num"
      <4>1. r # <<>>
        BY <3>1
      <4> QED BY <4>1 DEF Stop
    <3> QED BY <2>1, <3>1 DEF Digit
  <2>3. Value = 0 /\ Behind = r
    BY <2>1, <2>2 DEF Value, Behind
  <2>4. \A n : h # <<Num(n)>>
    BY <1>3
  <2> QED BY <1>3, <2>3, <2>4
<1>4. CASE h # <<>> /\ h[1].k # "num"
  <2>1. Len(h) >= 1 /\ s[1] = h[1] /\ s # <<>>
    BY <1>1, <1>2, <1>4
  <2>2. Behind = s
    BY <1>4, <2>1 DEF Digit, Behind
  <2>3. ~ Stop(Behind)
    BY <1>2, <2>1, <2>2 DEF Stop
  <2>4. \A n : h # <<Num(n)>>
    BY <1>4, Numbers
  <2> QED BY <1>4, <2>3, <2>4
<1>5. CASE h # <<>> /\ h[1].k = "num"
  <2>1. Len(h) >= 1 /\ s[1] = h[1] /\ s # <<>> /\ Len(s) >= 1
    BY <1>1, <1>2, <1>5
  <2>2. Digit(1) /\ Value = h[1].v /\ Behind = Tail(s)
    BY <1>5, <2>1 DEF Digit, Value, Behind
  <2>3. h[1] = Num(h[1].v)
    BY <1>2, <1>5, <2>1, Numbers, PlainTokens
  <2>4. /\ Behind \in Seq(Tokens) /\ Len(Behind) = Len(s) - 1
        /\ \A i \in 1 .. Len(Behind) : Behind[i] = s[i + 1]
    BY <1>1, <2>1, <2>2, HeadTailProperties
  <2>5. CASE Len(h) = 1
    <3>1. h = <<h[1]>>
      BY <2>5
    <3>2. Behind = r
      <4>1. Len(Behind) = Len(r)
        BY <1>1, <2>4, <2>5
      <4>2. ASSUME NEW i \in 1 .. Len(Behind) PROVE Behind[i] = r[i]
        <5>1. i + 1 \in 1 .. Len(h) + Len(r) /\ ~(i + 1 <= Len(h)) /\ i + 1 - Len(h) = i
          BY <1>1, <2>5, <4>1
        <5> QED BY <1>1, <2>4, <5>1
      <4> QED BY <2>4, <4>1, <4>2, SeqEqual
    <3>3. ASSUME NEW n \in Nat, h = <<Num(n)>> PROVE Value = n
      <4>1. h[1] = Num(n)
        BY <3>3
      <4> QED BY <2>2, <4>1, Numbers
    <3>4. h = <<Num(Value)>> /\ h # <<>>
      BY <1>5, <2>2, <2>3, <3>1
    <3>5. Stop(Behind)
      BY <3>2
    <3> QED BY <3>2, <3>3, <3>4, <3>5
  <2>6. CASE Len(h) # 1
    <3>1. Len(h) >= 2
      <4>1. \A n \in Nat : n >= 1 /\ n # 1 => n >= 2
        OBVIOUS
      <4>2. Len(h) \in Nat
        BY <1>1
      <4> QED BY <2>1, <2>6, <4>1, <4>2
    <3>2. Behind # <<>> /\ Behind[1] = h[2]
      BY <1>1, <1>2, <2>4, <3>1
    <3>3. ~ Stop(Behind)
      BY <1>2, <3>1, <3>2 DEF Stop
    <3>4. \A n : h # <<Num(n)>>
      BY <2>6
    <3> QED BY <1>5, <3>3, <3>4
  <2> QED BY <2>5, <2>6
<1> QED BY <1>3, <1>4, <1>5

(* The five symbols are different.                                         *)
LEMMA Distinct ==
  /\ Sym("*") # Sym(".") /\ Sym("*") # Sym("<") /\ Sym("*") # Sym(">=") /\ Sym("*") # Sym(":")
  /\ Sym(".") # Sym("<") /\ Sym(".") # Sym(">=") /\ Sym(".") # Sym(":")
  /\ Sym("<") # Sym(">=") /\ Sym("<") # Sym(":") /\ Sym(">=") # Sym(":")
BY DEF Sym

(* Putting a part in front of a text.                                      *)
LEMMA FrontPart ==
  ASSUME NEW h \in Seq(Tokens), NEW r \in Seq(Tokens)
  PROVE  /\ h \o r \in Seq(Tokens)
         /\ h = <<>> => h \o r = r
         /\ h # <<>> => h \o r # <<>> /\ (h \o r)[1] = h[1]
<1>1. ASSUME h # <<>> PROVE h \o r # <<>> /\ (h \o r)[1] = h[1]
  <2>1. Len(h) \in Nat /\ Len(r) \in Nat /\ Len(h) # 0
    BY <1>1
  <2>2. 1 \in 1 .. Len(h) + Len(r) /\ 1 <= Len(h)
    BY <2>1
  <2>3. Len(h \o r) # 0 /\ (h \o r)[1] = h[1]
    BY <2>1, <2>2, ConcatProperties
  <2> QED BY <2>3
<1>2. h = <<>> => h \o r = r
  BY ConcatEmptySeq
<1> QED BY <1>1, <1>2, ConcatProperties

LEMMA Grouped ==
  \A x, y, z \in Seq(Tokens) : (x \o y) \o z = x \o (y \o z)
BY ConcatAssociative

LEMMA BehindToken ==
  ASSUME NEW c \in Tokens, NEW r \in Seq(Tokens)
  PROVE  /\ <<c>> \o r \in Seq(Tokens) /\ <<c>> \o r # <<>> /\ (<<c>> \o r)[1] = c
         /\ Tail(<<c>> \o r) = r
<1>1. <<c>> \in Seq(Tokens) /\ <<c>> # <<>> /\ <<c>>[1] = c /\ Len(<<c>>) = 1
  OBVIOUS
<1>2. <<c>> \o r \in Seq(Tokens) /\ <<c>> \o r # <<>> /\ (<<c>> \o r)[1] = c
  BY <1>1, FrontPart
<1>3. SubSeq(<<c>> \o r, Len(<<c>>) + 1, Len(<<c>> \o r)) = r
  BY <1>1, BehindPart
<1>4. Len(<<c>>) + 1 = 2
  BY <1>1
<1>5. SubSeq(<<c>> \o r, 2, Len(<<c>> \o r)) = r
  BY <1>3, <1>4
<1>6. Tail(<<c>> \o r) = SubSeq(<<c>> \o r, 2, Len(<<c>> \o r))
  BY <1>2, TailIsSubSeq
<1> QED BY <1>2, <1>5, <1>6

(* The comparison and what comes behind it.                                *)
LEMMA RestParts ==
  ASSUME NEW p \in Inputs
  PROVE  /\ Rest(p) \in Seq(Tokens)
         /\ p.cmp = <<>> => Rest(p) = p.modes
         /\ p.cmp # <<>> => Rest(p) # <<>> /\ Rest(p)[1] = p.cmp[1] /\ p.cmp[1] \in {Sym("<"), Sym(">=")}
<1>1. /\ p.cmp \in Seq(Tokens) /\ p.operand \in Seq(Tokens) /\ p.modes \in Seq(Tokens)
      /\ p.operand \o p.modes \in Seq(Tokens)
  BY PartsTokens, ConcatProperties
<1>2. Rest(p) = p.cmp \o (p.operand \o p.modes)
  BY DEF Rest
<1>3. p.cmp = <<>> => p.operand = <<>>
  BY PartsOf
<1>4. p.operand = <<>> => p.operand \o p.modes = p.modes
  BY <1>1, FrontPart
<1>5. p.cmp # <<>> => p.cmp[1] \in {Sym("<"), Sym(">=")}
  BY PartsOf
<1>6. Rest(p) \in Seq(Tokens)
  BY <1>1, <1>2, FrontPart
<1>7. p.cmp = <<>> => Rest(p) = p.modes
  BY <1>1, <1>2, <1>3, <1>4, FrontPart
<1>8. p.cmp # <<>> => Rest(p) # <<>> /\ Rest(p)[1] = p.cmp[1]
  <2> DEFINE r == p.operand \o p.modes
  <2>1. p.cmp \in Seq(Tokens) /\ r \in Seq(Tokens) /\ Rest(p) = p.cmp \o r
    BY <1>1, <1>2
  <2> HIDE DEF r
  <2> QED BY <2>1, FrontPart
<1> QED BY <1>5, <1>6, <1>7, <1>8

LEMMA RestEnds ==
  ASSUME NEW p \in Inputs
  PROVE  /\ Over(Rest(p)) /\ Stop(Rest(p))
         /\ Rest(p) # <<>> => Rest(p)[1] # Sym(".") /\ Rest(p)[1] # Sym("*")
<1>1. Rest(p) = <<>> \/ Rest(p)[1] \in {Sym("<"), Sym(">="), Sym(":")}
  BY RestParts, PartsOf
<1>2. Over(Rest(p))
  BY <1>1, RestParts DEF Over
<1>3. Stop(Rest(p))
  BY <1>1, Symbols DEF Stop
<1> QED BY <1>1, <1>2, <1>3, Distinct

LEMMA OverStop ==
  ASSUME NEW t \in Seq(Tokens), Over(t)
  PROVE  Stop(t)
<1>1. t = <<>> \/ t[1] \in {Sym("<"), Sym(">="), Sym(":")}
  BY DEF Over
<1> QED BY <1>1, Symbols DEF Stop

(* The text from the umask on, and the whole text.                         *)
LEMMA FollowParts ==
  ASSUME NEW p \in Inputs
  PROVE  /\ p.umask \o Rest(p) \in Seq(Tokens) /\ Follow(p) \in Seq(Tokens) /\ Body(p) \in Seq(Tokens)
         /\ p.dot => /\ Follow(p) # <<>> /\ Follow(p)[1] = Sym(".") /\ Stop(Follow(p))
                     /\ Tail(Follow(p)) = p.umask \o Rest(p)
         /\ ~ p.dot => /\ Follow(p) = p.umask \o Rest(p)
                       /\ Body(p) = (p.event \o p.umask) \o Rest(p)
<1>1. /\ p.event \in Seq(Tokens) /\ p.umask \in Seq(Tokens) /\ Rest(p) \in Seq(Tokens)
      /\ <<Sym(".")>> \in Seq(Tokens) /\ <<>> \in Seq(Tokens)
  BY PartsTokens, RestParts
<1>2. p.umask \o Rest(p) \in Seq(Tokens)
  BY <1>1, FrontPart
<1>3. CASE p.dot
  <2>1. Follow(p) = <<Sym(".")>> \o (p.umask \o Rest(p)) /\ Sym(".") \in Tokens
    BY <1>3, Symbols DEF Follow
  <2>2. Follow(p) \in Seq(Tokens) /\ Follow(p) # <<>> /\ Follow(p)[1] = Sym(".")
    BY <1>2, <2>1, BehindToken
  <2>3. Tail(Follow(p)) = p.umask \o Rest(p)
    BY <1>2, <2>1, BehindToken
  <2>4. Stop(Follow(p))
    BY <2>2, Symbols DEF Stop
  <2>5. Body(p) \in Seq(Tokens)
    BY <1>1, <2>2, FrontPart DEF Body
  <2> QED BY <1>2, <1>3, <2>2, <2>3, <2>4, <2>5
<1>4. CASE ~ p.dot
  <2>1. Follow(p) = p.umask \o Rest(p)
    BY <1>1, <1>2, <1>4, FrontPart DEF Follow
  <2>2. Body(p) = (p.event \o p.umask) \o Rest(p)
    <3> DEFINE x == p.event  y == p.umask  z == Rest(p)
    <3>1. x \in Seq(Tokens) /\ y \in Seq(Tokens) /\ z \in Seq(Tokens)
      BY <1>1
    <3> HIDE DEF x, y, z
    <3>2. (x \o y) \o z = x \o (y \o z)
      BY ONLY <3>1, Grouped
    <3>3. (p.event \o p.umask) \o Rest(p) = p.event \o (p.umask \o Rest(p))
      BY <3>2 DEF x, y, z
    <3> QED BY <2>1, <3>3 DEF Body
  <2>3. Body(p) \in Seq(Tokens)
    BY <1>1, <1>2, <2>1, FrontPart DEF Body
  <2> QED BY <1>2, <1>4, <2>1, <2>2, <2>3
<1> QED BY <1>3, <1>4

LEMMA TextParts ==
  ASSUME NEW p \in Inputs
  PROVE  /\ p.star => Text(p) # <<>> /\ Text(p)[1] = Sym("*") /\ Tail(Text(p)) = Body(p)
         /\ ~ p.star => Text(p) = Body(p)
         /\ Body(p) # <<>> => Body(p)[1] # Sym("*")
<1> DEFINE star == IF p.star THEN <<Sym("*")>> ELSE <<>>
<1>1. star \in Seq(Tokens) /\ p.event \in Seq(Tokens) /\ p.umask \in Seq(Tokens)
  BY PartsTokens
<1>2. /\ p.star => star = <<Sym("*")>>
      /\ ~ p.star => star = <<>>
  OBVIOUS
<1>3. Text(p) = star \o Body(p)
  BY DEF Text, Body, Follow
<1> HIDE DEF star
<1>4. Body(p) \in Seq(Tokens)
  BY FollowParts
<1>5. p.star => Text(p) # <<>> /\ Text(p)[1] = Sym("*") /\ Tail(Text(p)) = Body(p)
  <2>1. SUFFICES ASSUME p.star PROVE Text(p) # <<>> /\ Text(p)[1] = Sym("*") /\ Tail(Text(p)) = Body(p)
    OBVIOUS
  <2>2. Text(p) = <<Sym("*")>> \o Body(p) /\ Sym("*") \in Tokens
    BY <1>2, <1>3, <2>1, Symbols
  <2> QED BY <1>4, <2>2, BehindToken
<1>6. ~ p.star => Text(p) = Body(p)
  BY <1>1, <1>2, <1>3, <1>4, FrontPart
<1>7. Body(p) # <<>> => Body(p)[1] # Sym("*")
  <2>1. \A h \in Seq(Plain) : h # <<>> => h[1] # Sym("*")
    <3>1. \A h \in Seq(Plain) : h # <<>> => h[1] \in Plain
      OBVIOUS
    <3> QED BY <3>1, PlainTokens, Symbols
  <2>2. p.event \in Seq(Plain) /\ p.umask \in Seq(Plain)
    BY PartsOf
  <2>3. p.umask \o Rest(p) # <<>> => (p.umask \o Rest(p))[1] # Sym("*")
    BY <1>1, <2>1, <2>2, RestEnds, RestParts, FrontPart
  <2>4. Follow(p) # <<>> => Follow(p)[1] # Sym("*")
    BY <2>3, FollowParts, Distinct, PartsOf
  <2> QED BY <1>1, <2>1, <2>2, <2>4, FollowParts, FrontPart DEF Body
<1> QED BY <1>5, <1>6, <1>7

(* The names of the table and the texts in front of the umask.             *)
LEMMA EventEnds ==
  ASSUME NEW p \in Inputs, s = Body(p)
  PROVE  /\ Named = {i \in DOMAIN EventList : p.dot /\ EventList[i].name = p.event}
         /\ Behind # <<>> /\ Head(Behind) = Sym(".") <=> p.dot /\ p.event \in {<<>>, <<Num(Value)>>}
         /\ Behind # <<>> /\ Head(Behind) = Sym(".") => Tail(Behind) = p.umask \o Rest(p)
         /\ p.event = <<>> => (p.dot => Value = 0)
         /\ \A n \in Nat : p.dot /\ p.event = <<Num(n)>> => Value = n
         /\ \A i \in Named : Drop(Len(EventList[i].name) + 1) = p.umask \o Rest(p)
<1>1. /\ p.event \in Seq(Plain) /\ p.umask \in Seq(Plain) /\ p.event \o p.umask \in Seq(Plain)
      /\ p.event \in Seq(Tokens)
  BY PartsOf, PartsTokens, ConcatProperties
<1>2. Follow(p) \in Seq(Tokens) /\ Rest(p) \in Seq(Tokens) /\ Stop(Rest(p))
  BY FollowParts, RestParts, RestEnds
<1>3. Stop(Behind) <=> Behind = <<>> \/ Behind[1].k = "sym"
  BY DEF Stop
<1>4. Head(Behind) = Sym(".") => Head(Behind).k = "sym"
  BY Symbols
<1>5. CASE p.dot
  <2>1. Follow(p) # <<>> /\ Follow(p)[1] = Sym(".") /\ Stop(Follow(p)) /\ Tail(Follow(p)) = p.umask \o Rest(p)
    BY <1>5, FollowParts
  <2>2. s = p.event \o Follow(p)
    BY DEF Body
  <2>3. ASSUME NEW i \in DOMAIN EventList
        PROVE  IsPrefix(EventList[i].name \o <<Sym(".")>>, s) <=> EventList[i].name = p.event
    <3> DEFINE a == EventList[i].name  h == p.event  r == Follow(p)
    <3>1. a \in Seq(Pieces) /\ h \in Seq(Plain) /\ r \in Seq(Tokens) /\ Stop(r)
      BY <1>1, <1>2, <2>1, Entries
    <3>2. r # <<>> /\ r[1] = Sym(".") /\ s = h \o r
      BY <2>1, <2>2
    <3> HIDE DEF a, h, r
    <3>3. IsPrefix(a \o <<Sym(".")>>, h \o r) <=> a = h
      BY ONLY <3>1, <3>2, NameAndDot
    <3> QED BY <3>2, <3>3 DEF a, h
  <2>4. Named = {i \in DOMAIN EventList : p.dot /\ EventList[i].name = p.event}
    BY <1>5, <2>3 DEF Named
  <2>5. /\ Stop(Behind) <=> p.event = <<>> \/ p.event = <<Num(Value)>>
        /\ Stop(Behind) => Behind = Follow(p)
        /\ p.event = <<>> => Value = 0
        /\ \A n \in Nat : p.event = <<Num(n)>> => Value = n
    BY <1>1, <1>2, <2>1, <2>2, NumberEnds
  <2>6. Behind # <<>> /\ Head(Behind) = Sym(".") <=> Stop(Behind)
    <3>1. Behind # <<>> /\ Head(Behind) = Sym(".") => Stop(Behind)
      <4>1. Head(Behind) = Behind[1]
        OBVIOUS
      <4> QED BY <1>3, <1>4, <4>1
    <3>2. Stop(Behind) => Behind # <<>> /\ Head(Behind) = Sym(".")
      <4>1. Head(Follow(p)) = Follow(p)[1]
        OBVIOUS
      <4> QED BY <2>1, <2>5, <4>1
    <3> QED BY <3>1, <3>2
  <2>7. ASSUME NEW i \in Named PROVE Drop(Len(EventList[i].name) + 1) = p.umask \o Rest(p)
    <3>1. EventList[i].name = p.event
      BY <2>4
    <3>2. SubSeq(p.event \o Follow(p), Len(p.event) + 2, Len(p.event \o Follow(p))) = Tail(Follow(p))
      BY <1>1, <1>2, <2>1, BehindPart
    <3>3. Len(p.event) + 1 + 1 = Len(p.event) + 2
      BY <1>1
    <3> QED BY <2>1, <2>2, <3>1, <3>2, <3>3 DEF Drop
  <2> QED BY <1>5, <2>1, <2>4, <2>5, <2>6, <2>7
<1>6. CASE ~ p.dot
  <2>1. s = (p.event \o p.umask) \o Rest(p)
    BY <1>6, FollowParts
  <2>2. Rest(p) # <<>> => Rest(p)[1] # Sym(".")
    BY RestEnds
  <2>3. ASSUME NEW i \in DOMAIN EventList
        PROVE  ~ IsPrefix(EventList[i].name \o <<Sym(".")>>, s)
    <3> DEFINE a == EventList[i].name  h == p.event \o p.umask  r == Rest(p)
    <3>1. a \in Seq(Pieces) /\ h \in Seq(Plain) /\ r \in Seq(Tokens) /\ Stop(r)
      BY <1>1, <1>2, Entries
    <3>2. ~ (r # <<>> /\ r[1] = Sym(".")) /\ s = h \o r
      BY <2>1, <2>2
    <3> HIDE DEF a, h, r
    <3>3. ~ IsPrefix(a \o <<Sym(".")>>, h \o r)
      BY ONLY <3>1, <3>2, NameAndDot
    <3> QED BY <3>2, <3>3 DEF a
  <2>4. Named = {}
    BY <2>3 DEF Named
  <2>5. ~ (Behind # <<>> /\ Head(Behind) = Sym("."))
    <3>1. SUFFICES ASSUME Behind # <<>>, Head(Behind) = Sym(".") PROVE FALSE
      OBVIOUS
    <3>2. Head(Behind) = Behind[1]
      OBVIOUS
    <3>3. Stop(Behind)
      BY <1>3, <1>4, <3>1, <3>2
    <3>4. Behind = Rest(p)
      BY <1>1, <1>2, <2>1, <3>3, NumberEnds
    <3> QED BY <2>2, <3>1, <3>2, <3>4
  <2> QED BY <1>6, <2>4, <2>5
<1> QED BY <1>5, <1>6

(* An event is known by one entry of the table.                            *)
LEMMA NameOrNumber ==
  ASSUME NEW a \in Seq(Pieces), NEW n
  PROVE  a # <<Num(n)>>
<1>1. SUFFICES ASSUME a = <<Num(n)>> PROVE FALSE
  OBVIOUS
<1>2. Len(a) = 1 /\ a[1] = Num(n)
  BY <1>1
<1>3. a[1] \in Pieces
  BY <1>2
<1> QED BY <1>2, <1>3, PlainTokens, Numbers

LEMMA KnownOnce ==
  ASSUME NEW p \in Inputs, NEW i \in DOMAIN EventList, NEW j \in DOMAIN EventList,
         Knows(p, i), Knows(p, j)
  PROVE  i = j
<1>1. EventList[i].name \in Seq(Pieces) /\ EventList[j].name \in Seq(Pieces)
  BY Entries
<1>2. /\ EventList[i].name # <<Num(EventList[j].evt_num)>>
      /\ EventList[j].name # <<Num(EventList[i].evt_num)>>
  BY <1>1, NameOrNumber
<1>3. \A a, b : <<Num(a)>> = <<Num(b)>> => a = b
  <2>1. \A x, y : <<x>> = <<y>> => x = y
    OBVIOUS
  <2> QED BY <2>1, Numbers
<1>4. EventList[i].name = EventList[j].name \/ EventList[i].evt_num = EventList[j].evt_num
  BY <1>2, <1>3 DEF Knows
<1> QED BY <1>4, EvtAssumption

(* What the parts mean, entry by entry.                                    *)
SaysUmask(p, us, u) ==
  \/ \E j \in DOMAIN us : p.umask = us[j].name /\ u = us[j].umask_val
  \/ p.umask = <<Num(u)>>
  \/ p.umask = <<>> /\ u = 0

LEMMA MeaningsOf ==
  ASSUME NEW p \in Inputs, NEW m
  PROVE  m \in Meanings(p) <=>
           \E i \in DOMAIN EventList : \E u \in Bytes :
              Knows(p, i) /\ SaysUmask(p, EventList[i].umasks, u) /\ m = <<EventList[i], u>>
<1>1. ASSUME NEW i \in DOMAIN EventList, NEW u
      PROVE  SaysUmask(p, EventList[i].umasks, u) <=>
               \/ \E w \in Range(EventList[i].umasks) : p.umask = w.name /\ u = w.umask_val
               \/ p.umask = <<Num(u)>>
               \/ p.umask = <<>> /\ u = 0
  BY DEF SaysUmask, Range
<1>2. ASSUME m \in Meanings(p)
      PROVE  \E i \in DOMAIN EventList : \E u \in Bytes :
                Knows(p, i) /\ SaysUmask(p, EventList[i].umasks, u) /\ m = <<EventList[i], u>>
  <2>1. m \in Range(EventList) \X Bytes
    BY <1>2 DEF Meanings
  <2>2. PICK i \in DOMAIN EventList : m[1] = EventList[i]
    BY <2>1 DEF Range
  <2>3. m[2] \in Bytes /\ m = <<EventList[i], m[2]>>
    BY <2>1, <2>2
  <2>4. Knows(p, i) /\ SaysUmask(p, EventList[i].umasks, m[2])
    BY <1>1, <1>2, <2>2 DEF Meanings, Knows
  <2> QED BY <2>3, <2>4
<1>3. ASSUME NEW i \in DOMAIN EventList, NEW u \in Bytes,
             Knows(p, i), SaysUmask(p, EventList[i].umasks, u), m = <<EventList[i], u>>
      PROVE  m \in Meanings(p)
  <2>1. m \in Range(EventList) \X Bytes /\ m[1] = EventList[i] /\ m[2] = u
    BY <1>3 DEF Range
  <2>2. p.dot /\ p.event \in {m[1].name, <<Num(m[1].evt_num)>>}
    BY <1>3, <2>1 DEF Knows
  <2>3. \/ \E w \in Range(m[1].umasks) : p.umask = w.name /\ m[2] = w.umask_val
        \/ p.umask = <<Num(m[2])>>
        \/ p.umask = <<>> /\ m[2] = 0
    BY <1>1, <1>3, <2>1
  <2> QED BY <2>1, <2>2, <2>3 DEF Meanings
<1> QED BY <1>2, <1>3

(* The names of the umasks and the text of one.                            *)
LEMMA UmaskEnds ==
  ASSUME NEW p \in Inputs, umasks \in Seq(Umask), s = p.umask \o Rest(p)
  PROVE  /\ \A j \in DOMAIN umasks : Fits(j) <=> umasks[j].name = p.umask
         /\ \A j \in DOMAIN umasks : umasks[j].name = p.umask => Drop(Len(umasks[j].name)) = Rest(p)
         /\ Over(Behind) <=> p.umask \in {<<>>, <<Num(Value)>>}
         /\ Over(Behind) => Behind = Rest(p)
         /\ p.umask = <<>> => Value = 0
         /\ \A n \in Nat : p.umask = <<Num(n)>> => Value = n
<1>1. p.umask \in Seq(Plain) /\ p.umask \in Seq(Tokens)
  BY PartsOf, PartsTokens
<1>2. Rest(p) \in Seq(Tokens) /\ Stop(Rest(p)) /\ Over(Rest(p))
  BY RestParts, RestEnds
<1>3. s \in Seq(Tokens)
  BY <1>1, <1>2, FrontPart
<1>4. ASSUME NEW j \in DOMAIN umasks, umasks[j].name = p.umask
      PROVE  Drop(Len(umasks[j].name)) = Rest(p)
  <2>1. SubSeq(p.umask \o Rest(p), Len(p.umask) + 1, Len(p.umask \o Rest(p))) = Rest(p)
    BY <1>1, <1>2, BehindPart
  <2> QED BY <1>4, <2>1 DEF Drop
<1>5. ASSUME NEW j \in DOMAIN umasks PROVE Fits(j) <=> umasks[j].name = p.umask
  <2> DEFINE a == umasks[j].name
  <2>1. a \in Seq(Pieces) /\ Len(a) \in Nat
    BY Umasks
  <2>2. Fits(j) <=> IsPrefix(a, s) /\ Over(Drop(Len(a)))
    BY DEF Fits
  <2>3. Drop(Len(a)) \in Seq(Tokens)
    BY <1>3, <2>1, Remainders
  <2>4. Drop(Len(a)) = SubSeq(s, Len(a) + 1, Len(s))
    BY DEF Drop
  <2> DEFINE h == p.umask  r == Rest(p)
  <2>5. h \in Seq(Plain) /\ r \in Seq(Tokens) /\ Stop(r) /\ s = h \o r
    BY <1>1, <1>2
  <2> HIDE DEF a, h, r
  <2>6. IsPrefix(a, s) /\ Stop(Drop(Len(a))) <=> a = h
    BY <2>1, <2>4, <2>5, NameFits
  <2>7. Over(Drop(Len(a))) => Stop(Drop(Len(a)))
    BY <2>3, OverStop
  <2>8. a = h => Over(Drop(Len(a)))
    BY <1>2, <1>4 DEF a, h
  <2> QED BY <2>2, <2>6, <2>7, <2>8 DEF a, h
<1>6. /\ Stop(Behind) <=> p.umask = <<>> \/ p.umask = <<Num(Value)>>
      /\ Stop(Behind) => Behind = Rest(p)
      /\ p.umask = <<>> => Value = 0
      /\ \A n \in Nat : p.umask = <<Num(n)>> => Value = n
  BY <1>1, <1>2, NumberEnds
<1>7. Over(Behind) <=> Stop(Behind)
  BY <1>2, <1>3, <1>6, OverStop, Remainders
<1> QED BY <1>4, <1>5, <1>6, <1>7

(* The comparison.                                                         *)
LEMMA TailPart ==
  ASSUME NEW a \in Seq(Tokens), NEW b \in Seq(Tokens), a # <<>>
  PROVE  Tail(a \o b) = Tail(a) \o b
<1>1. Tail(a) \in Seq(Tokens) /\ a = <<a[1]>> \o Tail(a) /\ a[1] \in Tokens
  <2>1. /\ Tail(a) \in Seq(Tokens) /\ Len(Tail(a)) = Len(a) - 1 /\ Len(a) \in Nat /\ Len(a) >= 1
        /\ \A i \in 1 .. Len(Tail(a)) : Tail(a)[i] = a[i + 1]
    BY HeadTailProperties
  <2>2. <<a[1]>> \in Seq(Tokens) /\ Len(<<a[1]>>) = 1 /\ <<a[1]>>[1] = a[1] /\ a[1] \in Tokens
    BY <2>1
  <2> DEFINE x == <<a[1]>>  y == Tail(a)  z == x \o y
  <2> HIDE DEF x, y
  <2>3. /\ z \in Seq(Tokens) /\ Len(z) = Len(x) + Len(y)
        /\ \A i \in 1 .. Len(x) + Len(y) : z[i] = IF i <= Len(x) THEN x[i] ELSE y[i - Len(x)]
    BY <2>1, <2>2, ConcatProperties DEF x, y
  <2>4. Len(x) = 1 /\ Len(y) = Len(a) - 1 /\ x[1] = a[1] /\ \A i \in 1 .. Len(y) : y[i] = a[i + 1]
    BY <2>1, <2>2 DEF x, y
  <2>5. Len(z) = Len(a)
    BY <2>1, <2>3, <2>4
  <2>6. ASSUME NEW i \in 1 .. Len(a) PROVE z[i] = a[i]
    <3>1. CASE i = 1
      BY <2>1, <2>3, <2>4, <3>1
    <3>2. CASE i # 1
      <4>1. i - 1 \in 1 .. Len(y) /\ ~ (i <= Len(x)) /\ i \in 1 .. Len(x) + Len(y) /\ i - Len(x) = i - 1
        BY <2>1, <2>4, <3>2
      <4>2. z[i] = y[i - 1]
        BY <2>3, <4>1
      <4>3. y[i - 1] = a[(i - 1) + 1] /\ (i - 1) + 1 = i
        BY <2>4, <4>1
      <4> QED BY <4>2, <4>3
    <3> QED BY <3>1, <3>2
  <2> HIDE DEF z
  <2>7. z = a
    BY <2>3, <2>5, <2>6, SeqEqual
  <2> QED BY <2>1, <2>2, <2>7 DEF x, y, z
<1> DEFINE c == a[1]  t == Tail(a)
<1>2. c \in Tokens /\ t \in Seq(Tokens) /\ <<c>> \in Seq(Tokens) /\ a = <<c>> \o t
  BY <1>1
<1> HIDE DEF c, t
<1>3. (<<c>> \o t) \o b = <<c>> \o (t \o b) /\ t \o b \in Seq(Tokens)
  BY <1>2, Grouped, FrontPart
<1>4. Tail(<<c>> \o (t \o b)) = t \o b
  BY <1>2, <1>3, BehindToken
<1> QED BY <1>2, <1>3, <1>4 DEF t

LEMMA CmaskReads ==
  ASSUME NEW p \in Inputs, s = Rest(p)
  PROVE  /\ Comparison <=> Compares(p)
         /\ Compares(p) => /\ s[2].v = p.operand[1].v /\ s[2].v \in Nat
                           /\ Drop(2) = Tail(p.operand) \o p.modes
                           /\ Begins("<") <=> p.cmp = <<Sym("<")>>
<1>1. p.cmp = <<>> \/ p.cmp = <<Sym("<")>> \/ p.cmp = <<Sym(">=")>>
  BY PartsOf
<1>2. CASE p.cmp = <<>>
  <2>1. s = p.modes
    BY <1>2, RestParts
  <2>2. ~ Begins("<") /\ ~ Begins(">=")
    BY <2>1, PartsOf, Distinct DEF Begins
  <2> QED BY <1>2, <2>2 DEF Comparison, Compares
<1>3. ASSUME NEW c \in {"<", ">="}, p.cmp = <<Sym(c)>>
      PROVE  /\ Comparison <=> Compares(p)
             /\ Compares(p) => /\ s[2].v = p.operand[1].v /\ s[2].v \in Nat
                               /\ Drop(2) = Tail(p.operand) \o p.modes
                               /\ Begins("<") <=> p.cmp = <<Sym("<")>>
  <2> DEFINE r == p.operand \o p.modes
  <2>1. p.operand \in Seq(Tokens) /\ p.modes \in Seq(Tokens) /\ r \in Seq(Tokens) /\ Sym(c) \in Tokens
    BY PartsTokens, FrontPart, Symbols
  <2>2. s = <<Sym(c)>> \o r
    BY <1>3 DEF Rest
  <2> HIDE DEF r
  <2>3. s # <<>> /\ s[1] = Sym(c) /\ Tail(s) = r /\ s \in Seq(Tokens)
    BY <2>1, <2>2, BehindToken
  <2>4. Begins(">=") \/ Begins("<")
    BY <2>3 DEF Begins
  <2>5. Begins("<") <=> p.cmp = <<Sym("<")>>
    <3>1. \A x, y : <<x>> = <<y>> => x = y
      OBVIOUS
    <3>2. <<Sym(c)>> = <<Sym("<")>> <=> Sym(c) = Sym("<")
      BY <3>1
    <3> QED BY <1>3, <2>3, <3>2 DEF Begins
  <2>6. Len(r) = Len(s) - 1 /\ (Len(r) >= 1 => s[2] = r[1]) /\ Len(r) \in Nat
    <3>1. Len(Tail(s)) = Len(s) - 1 /\ \A i \in 1 .. Len(Tail(s)) : Tail(s)[i] = s[i + 1]
      BY <2>3, HeadTailProperties
    <3>2. Len(r) \in Nat
      BY <2>1
    <3>3. ASSUME Len(r) >= 1 PROVE s[2] = r[1]
      <4>1. 1 \in 1 .. Len(r) /\ 1 + 1 = 2
        BY <3>2, <3>3
      <4> QED BY <2>3, <3>1, <4>1
    <3> QED BY <2>3, <3>1, <3>2, <3>3
  <2>7. Digit(2) <=> r # <<>> /\ r[1].k = "num"
    <3>1. r # <<>> <=> Len(r) >= 1
      BY <2>1
    <3>2. Len(s) >= 2 <=> Len(r) >= 1
      BY <2>3, <2>6
    <3> QED BY <2>6, <3>1, <3>2 DEF Digit
  <2>8. CASE p.operand = <<>>
    <3>1. r = p.modes
      BY <2>1, <2>8, FrontPart DEF r
    <3>2. ~ Digit(2)
      BY <2>7, <3>1, PartsOf, Symbols
    <3> QED BY <2>8, <3>2 DEF Comparison, Compares
  <2>9. CASE p.operand # <<>>
    <3>1. r # <<>> /\ r[1] = p.operand[1]
      BY <2>1, <2>9, FrontPart DEF r
    <3>2. p.cmp # <<>>
      BY <1>3
    <3>3. Comparison <=> Compares(p)
      BY <2>4, <2>7, <2>9, <3>1, <3>2 DEF Comparison, Compares
    <3>4. Drop(2) = Tail(p.operand) \o p.modes
      <4>1. SubSeq(s, Len(<<Sym(c)>>) + 2, Len(s)) = Tail(r)
        <5>1. <<Sym(c)>> \in Seq(Tokens)
          BY <2>1
        <5> QED BY <2>1, <2>2, <3>1, <5>1, BehindPart
      <4>2. Len(<<Sym(c)>>) + 2 = 2 + 1
        OBVIOUS
      <4>3. Tail(r) = Tail(p.operand) \o p.modes
        BY <2>1, <2>9, TailPart DEF r
      <4> QED BY <4>1, <4>2, <4>3 DEF Drop
    <3>5. Compares(p) => s[2] = p.operand[1]
      <4>1. Len(r) >= 1
        BY <2>1, <3>1
      <4> QED BY <2>6, <3>1, <4>1
    <3>6. Compares(p) => s[2].v \in Nat
      <4>1. p.operand[1] \in Tokens
        BY <2>1, <2>9
      <4> QED BY <3>5, <4>1, Numbers DEF Compares
    <3> QED BY <2>5, <3>3, <3>4, <3>5, <3>6
  <2> QED BY <2>8, <2>9
<1> QED BY <1>1, <1>2, <1>3

(* The colon of the modes.                                                 *)
LEMMA ModesReads ==
  ASSUME NEW p \in Inputs, s = AfterCmp(p)
  PROVE  /\ Begins(":") <=> Heard(p)
         /\ Heard(p) => s = p.modes
<1>1. /\ p.operand \in Seq(Plain) /\ p.operand \in Seq(Tokens) /\ p.modes \in Seq(Tokens)
      /\ p.modes = <<>> \/ p.modes[1] = Sym(":")
  BY PartsOf, PartsTokens
<1>2. CASE p.cmp = <<>>
  <2>1. ~ Compares(p)
    BY <1>2 DEF Compares
  <2>2. s = p.modes
    BY <1>2, <2>1, RestParts DEF AfterCmp
  <2> QED BY <1>1, <1>2, <2>2 DEF Begins, Heard
<1>3. CASE p.cmp # <<>> /\ ~ Compares(p)
  <2>1. s # <<>> /\ s[1] \in {Sym("<"), Sym(">=")}
    BY <1>3, RestParts DEF AfterCmp
  <2> QED BY <1>3, <2>1, Distinct DEF Begins, Heard
<1>4. CASE p.cmp # <<>> /\ Compares(p)
  <2> DEFINE t == Tail(p.operand)
  <2>1. s = t \o p.modes /\ p.operand # <<>>
    BY <1>4 DEF AfterCmp, Compares
  <2>2. /\ t \in Seq(Plain) /\ t \in Seq(Tokens) /\ Len(t) = Len(p.operand) - 1
        /\ Len(p.operand) \in Nat
    BY <1>1, <2>1, HeadTailProperties
  <2>3. t = <<>> <=> Len(p.operand) = 1
    <3> HIDE DEF t
    <3>0. \A x \in Seq(Tokens) : x = <<>> <=> Len(x) = 0
      OBVIOUS
    <3>1. t = <<>> <=> Len(t) = 0
      BY <2>2, <3>0
    <3>2. \A n \in Nat : n - 1 = 0 <=> n = 1
      OBVIOUS
    <3> QED BY <2>2, <3>1, <3>2
  <2> HIDE DEF t
  <2>4. CASE t = <<>>
    <3>1. s = p.modes
      BY <1>1, <2>1, <2>2, <2>4, FrontPart
    <3> QED BY <1>1, <1>4, <2>3, <2>4, <3>1 DEF Begins, Heard
  <2>5. CASE t # <<>>
    <3>1. s[1] = t[1]
      BY <1>1, <2>1, <2>2, <2>5, FrontPart
    <3>2. t[1] \in Plain
      BY <2>2, <2>5
    <3>3. s[1] # Sym(":")
      BY <3>1, <3>2, PlainTokens, Symbols
    <3> QED BY <1>4, <2>3, <2>5, <3>3 DEF Begins, Heard
  <2> QED BY <2>4, <2>5
<1> QED BY <1>2, <1>3, <1>4

-----------------------------------------------------------------------------
(* What has been understood at each stage: of the text p, with the event   *)
(* and umask m, what is in the fields; n tokens of the modes are read.     *)
Early(p, e, u) ==
  [edge_triggered |-> Bit(p.star), evt_num |-> e, umask_val |-> u, user |-> 1, os |-> 0,
   anythread |-> 0, inv |-> 0, cmask |-> 0]
Late(p, m, usr, sys, any) ==
  [edge_triggered |-> Bit(p.star), evt_num |-> m[1].evt_num, umask_val |-> m[2],
   user |-> usr, os |-> sys, anythread |-> any,
   inv |-> Bit(Compares(p) /\ p.cmp = <<Sym("<")>>),
   cmask |-> IF Compares(p) THEN p.operand[1].v % 256 ELSE 0]
Heeded(p, n) == {Letters[p.modes[i].v] : i \in 2 .. n}
Hearing(p, m, n) ==
  Late(p, m, Bit("user" \in Heeded(p, n)), Bit("os" \in Heeded(p, n)), Bit("anythread" \in Heeded(p, n)))

ReadInv ==
  LET p == input IN
  /\ stage = "begin" => s = Text(p) /\ f = Defaults
  /\ stage = "event" => s = Body(p) /\ f = Early(p, 0, 0)
  /\ stage = "umask" =>
       /\ s = p.umask \o Rest(p)
       /\ \E i \in DOMAIN EventList : /\ Knows(p, i) /\ umasks = EventList[i].umasks
                                      /\ f = Early(p, EventList[i].evt_num, 0)
  /\ stage = "cmask" =>
       s = Rest(p) /\ \E m \in Meanings(p) : f = Early(p, m[1].evt_num, m[2])
  /\ stage = "modes" =>
       s = AfterCmp(p) /\ \E m \in Meanings(p) : f = Late(p, m, 1, 0, 0)
  /\ stage = "letters" =>
       /\ Heard(p)
       /\ \E n \in 1 .. Len(p.modes) :
            /\ s = SubSeq(p.modes, n + 1, Len(p.modes)) /\ \A j \in 2 .. n : IsMode(p.modes[j])
            /\ \E m \in Meanings(p) : f = Hearing(p, m, n)
  /\ stage = "word" => \E m \in Meanings(p) : f = Meant(p, m)
  /\ stage = "done" => IF cfg = Zero THEN Meanings(p) = {}
                       ELSE \E m \in Meanings(p) : f = Meant(p, m)

(* The stages one after the other.                                         *)
LEMMA ReadBegin ==
  ASSUME FieldsInv, ReadInv, Begin
  PROVE  ReadInv'
<1>1. input \in Inputs /\ stage = "begin" /\ s = Text(input) /\ f = Defaults /\ cfg = Zero
  BY DEF FieldsInv, ReadInv, Begin
<1>2. CASE s = <<>> /\ Reject
  <2>1. ~ input.star /\ Body(input) = <<>>
    BY <1>1, <1>2, TextParts
  <2>2. ~ input.dot
    <3>1. SUFFICES ASSUME input.dot PROVE FALSE
      OBVIOUS
    <3>2. Follow(input) \in Seq(Tokens) /\ Follow(input) # <<>> /\ input.event \in Seq(Tokens)
      BY <1>1, <3>1, FollowParts, PartsTokens
    <3>3. input.event \o Follow(input) # <<>>
      BY <3>2, ConcatEqualIffEmpty
    <3> QED BY <2>1, <3>3 DEF Body
  <2>3. Meanings(input) = {}
    BY <2>2 DEF Meanings
  <2> QED BY <1>1, <1>2, <2>3 DEF ReadInv, Reject, Zero
<1>3. CASE s # <<>> /\ ~ Begins("*") /\ Goto("event", s) /\ UNCHANGED <<umasks, f>>
  <2>1. ~ input.star
    BY <1>1, <1>3, TextParts DEF Begins
  <2>2. s = Body(input)
    BY <1>1, <2>1, TextParts
  <2>3. f = Early(input, 0, 0)
    BY <1>1, <2>1 DEF Early, Defaults, Bit
  <2> QED BY <1>3, <2>2, <2>3 DEF ReadInv, Goto
<1>4. CASE /\ Begins("*") /\ Goto("event", Tail(s)) /\ f' = [f EXCEPT !.edge_triggered = 1]
           /\ UNCHANGED umasks
  <2>1. input.star
    BY <1>1, <1>4, TextParts DEF Begins
  <2>2. Tail(s) = Body(input)
    BY <1>1, <2>1, TextParts
  <2>3. f' = Early(input, 0, 0)
    BY <1>1, <1>4, <2>1 DEF Early, Defaults, Bit
  <2> QED BY <1>4, <2>2, <2>3 DEF ReadInv, Goto
<1> QED BY <1>2, <1>3, <1>4 DEF Begin

LEMMA ReadTake ==
  ASSUME FieldsInv, ReadInv, stage = "event", NEW i \in DOMAIN EventList, NEW rest,
         Take(i, rest), rest = input.umask \o Rest(input), Knows(input, i)
  PROVE  ReadInv'
<1>1. f' = Early(input, EventList[i].evt_num, 0)
  BY DEF ReadInv, Take, Early
<1> QED BY <1>1 DEF ReadInv, Take, Goto

LEMMA ReadReject ==
  ASSUME FieldsInv, Reject, stage # "done", Meanings(input) = {}
  PROVE  ReadInv'
BY DEF FieldsInv, ReadInv, Reject, Zero

LEMMA ReadEventName ==
  ASSUME FieldsInv, ReadInv, EventName
  PROVE  ReadInv'
<1>1. input \in Inputs /\ stage = "event" /\ s = Body(input)
  BY DEF FieldsInv, ReadInv, EventName
<1>2. Min(Named) \in Named
  BY PositionsOfEvents, MinOfNat DEF EventName
<1>3. /\ Min(Named) \in DOMAIN EventList /\ input.dot
      /\ EventList[Min(Named)].name = input.event
      /\ Drop(Len(EventList[Min(Named)].name) + 1) = input.umask \o Rest(input)
  BY <1>1, <1>2, EventEnds
<1>4. Knows(input, Min(Named))
  BY <1>3 DEF Knows
<1> QED BY <1>1, <1>3, <1>4, ReadTake DEF EventName

LEMMA ReadEventNumber ==
  ASSUME FieldsInv, ReadInv, EventNumber
  PROVE  ReadInv'
<1>1. input \in Inputs /\ stage = "event" /\ s = Body(input) /\ Named = {} /\ cfg = Zero
  BY DEF FieldsInv, ReadInv, EventNumber
<1>2. Value \in Nat
  BY Remainders DEF FieldsInv
<1>3. CASE Behind # <<>> /\ Head(Behind) = Sym(".") /\ Value <= 255 /\ Numbered # {}
  <2>1. Min(Numbered) \in Numbered
    BY <1>3, PositionsOfEvents, MinOfNat
  <2>2. /\ Min(Numbered) \in DOMAIN EventList /\ EventList[Min(Numbered)].evt_num = Value
        /\ Value # 0
    <3>1. Min(Numbered) \in DOMAIN EventList /\ EventList[Min(Numbered)].evt_num = Value
      BY <2>1 DEF Numbered
    <3> QED BY <3>1, Entries
  <2>3. /\ input.dot /\ input.event \in {<<>>, <<Num(Value)>>}
        /\ Tail(Behind) = input.umask \o Rest(input)
        /\ input.event = <<>> => Value = 0
    BY <1>1, <1>3, EventEnds
  <2>4. Knows(input, Min(Numbered))
    BY <2>2, <2>3 DEF Knows
  <2>5. Take(Min(Numbered), Tail(Behind))
    BY <1>3 DEF EventNumber
  <2> QED BY <1>1, <2>2, <2>3, <2>4, <2>5, ReadTake
<1>4. CASE ~ (Behind # <<>> /\ Head(Behind) = Sym(".") /\ Value <= 255 /\ Numbered # {})
  <2>1. Reject
    BY <1>4 DEF EventNumber
  <2>2. ASSUME NEW i \in DOMAIN EventList, Knows(input, i) PROVE FALSE
    <3>1. input.dot /\ input.event # EventList[i].name
      BY <1>1, <2>2, EventEnds DEF Knows
    <3>2. input.event = <<Num(EventList[i].evt_num)>>
      BY <2>2, <3>1 DEF Knows
    <3>3. EventList[i].evt_num \in Nat /\ EventList[i].evt_num <= 255
      BY Entries, ByteRange
    <3>4. Value = EventList[i].evt_num
      BY <1>1, <3>1, <3>2, <3>3, EventEnds
    <3>5. Value <= 255 /\ i \in Numbered
      BY <3>3, <3>4 DEF Numbered
    <3>6. Behind # <<>> /\ Head(Behind) = Sym(".")
      BY <1>1, <3>1, <3>2, <3>4, EventEnds
    <3> QED BY <1>4, <3>5, <3>6
  <2>3. Meanings(input) = {}
    BY <1>1, <2>2, MeaningsOf
  <2> QED BY <1>1, <2>1, <2>3, ReadReject
<1> QED BY <1>3, <1>4

LEMMA ReadUmaskName ==
  ASSUME FieldsInv, ReadInv, UmaskName
  PROVE  ReadInv'
<1>1. input \in Inputs /\ stage = "umask" /\ s = input.umask \o Rest(input) /\ umasks \in Seq(Umask)
  BY DEF FieldsInv, ReadInv, UmaskName
<1>2. PICK i \in DOMAIN EventList : /\ Knows(input, i) /\ umasks = EventList[i].umasks
                                    /\ f = Early(input, EventList[i].evt_num, 0)
  BY <1>1 DEF ReadInv
<1> DEFINE found == {j \in DOMAIN umasks : Fits(j)}  j == Min(found)
<1>3. found \subseteq Nat /\ found # {}
  BY <1>1 DEF UmaskName
<1>4. j \in DOMAIN umasks /\ Fits(j)
  BY <1>3, MinOfNat
<1>5. /\ Goto("cmask", Drop(Len(umasks[j].name)))
      /\ f' = [f EXCEPT !.umask_val = umasks[j].umask_val] /\ UNCHANGED umasks
  BY DEF UmaskName
<1> HIDE DEF found, j
<1>6. umasks[j].name = input.umask /\ Drop(Len(umasks[j].name)) = Rest(input)
  BY <1>1, <1>4, UmaskEnds
<1>7. umasks[j].umask_val \in Bytes
  BY <1>1, <1>4, Umasks
<1> DEFINE m == <<EventList[i], umasks[j].umask_val>>
<1>8. SaysUmask(input, EventList[i].umasks, umasks[j].umask_val)
  BY <1>2, <1>4, <1>6 DEF SaysUmask
<1>9. m \in Meanings(input)
  BY <1>1, <1>2, <1>7, <1>8, MeaningsOf
<1>10. f' = Early(input, m[1].evt_num, m[2])
  BY <1>2, <1>5 DEF Early
<1> HIDE DEF m
<1> QED BY <1>5, <1>6, <1>9, <1>10 DEF ReadInv, Goto

LEMMA ReadUmaskNumber ==
  ASSUME FieldsInv, ReadInv, UmaskNumber
  PROVE  ReadInv'
<1>1. /\ input \in Inputs /\ stage = "umask" /\ s = input.umask \o Rest(input) /\ umasks \in Seq(Umask)
      /\ \A j \in DOMAIN umasks : ~ Fits(j)
  BY DEF FieldsInv, ReadInv, UmaskNumber
<1>2. PICK i \in DOMAIN EventList : /\ Knows(input, i) /\ umasks = EventList[i].umasks
                                    /\ f = Early(input, EventList[i].evt_num, 0)
  BY <1>1 DEF ReadInv
<1>3. Value \in Nat
  BY Remainders DEF FieldsInv
<1>4. CASE Value <= 255 /\ Over(Behind)
  <2>1. Goto("cmask", Behind) /\ f' = [f EXCEPT !.umask_val = Value] /\ UNCHANGED umasks
    BY <1>4 DEF UmaskNumber
  <2>2. Value \in Bytes
    BY <1>3, <1>4, ByteRange
  <2>3. Behind = Rest(input) /\ SaysUmask(input, EventList[i].umasks, Value)
    BY <1>1, <1>4, UmaskEnds DEF SaysUmask
  <2> DEFINE m == <<EventList[i], Value>>
  <2>4. m \in Meanings(input)
    BY <1>1, <1>2, <2>2, <2>3, MeaningsOf
  <2>5. f' = Early(input, m[1].evt_num, m[2])
    BY <1>2, <2>1 DEF Early
  <2> HIDE DEF m
  <2> QED BY <2>1, <2>3, <2>4, <2>5 DEF ReadInv, Goto
<1>5. CASE ~ (Value <= 255 /\ Over(Behind))
  <2>1. Reject
    BY <1>5 DEF UmaskNumber
  <2>2. ASSUME NEW k \in DOMAIN EventList, NEW u \in Bytes, Knows(input, k),
               SaysUmask(input, EventList[k].umasks, u)
        PROVE  FALSE
    <3>1. k = i
      BY <1>1, <1>2, <2>2, KnownOnce
    <3>2. \A j \in DOMAIN umasks : input.umask # umasks[j].name
      BY <1>1, UmaskEnds
    <3>3. input.umask = <<Num(u)>> \/ (input.umask = <<>> /\ u = 0)
      BY <1>2, <2>2, <3>1, <3>2 DEF SaysUmask
    <3>4. u \in Nat /\ u <= 255
      BY ByteRange
    <3>5. Value = u /\ input.umask \in {<<>>, <<Num(Value)>>}
      BY <1>1, <3>3, <3>4, UmaskEnds
    <3>6. Over(Behind)
      BY <1>1, <3>5, UmaskEnds
    <3> QED BY <1>5, <3>4, <3>5, <3>6
  <2>3. Meanings(input) = {}
    BY <1>1, <2>2, MeaningsOf
  <2> QED BY <1>1, <2>1, <2>3, ReadReject
<1> QED BY <1>4, <1>5

LEMMA ReadCmask ==
  ASSUME FieldsInv, ReadInv, Cmask
  PROVE  ReadInv'
<1>1. input \in Inputs /\ stage = "cmask" /\ s = Rest(input)
  BY DEF FieldsInv, ReadInv, Cmask
<1>2. PICK m \in Meanings(input) : f = Early(input, m[1].evt_num, m[2])
  BY <1>1 DEF ReadInv
<1>3. s' = AfterCmp(input) /\ f' = Late(input, m, 1, 0, 0) /\ stage' = "modes" /\ input' = input
  <2>1. CASE Comparison
    <3>1. Compares(input)
      BY <1>1, <2>1, CmaskReads
    <3>2. /\ s' = Drop(2) /\ stage' = "modes" /\ input' = input
          /\ f' = [f EXCEPT !.cmask = Byte(s[2].v), !.inv = IF Begins("<") THEN 1 ELSE 0]
      BY <2>1 DEF Cmask, Goto
    <3>3. Byte(s[2].v) = input.operand[1].v % 256
      BY <1>1, <3>1, CmaskReads DEF Byte
    <3>4. (IF Begins("<") THEN 1 ELSE 0) = Bit(Compares(input) /\ input.cmp = <<Sym("<")>>)
      BY <1>1, <3>1, CmaskReads DEF Bit
    <3>5. s' = AfterCmp(input)
      BY <1>1, <3>1, <3>2, CmaskReads DEF AfterCmp
    <3>6. f' = Late(input, m, 1, 0, 0)
      BY <1>2, <3>1, <3>2, <3>3, <3>4 DEF Early, Late
    <3> QED BY <3>2, <3>5, <3>6
  <2>2. CASE ~ Comparison
    <3>1. ~ Compares(input)
      BY <1>1, <2>2, CmaskReads
    <3>2. s' = s /\ f' = f /\ stage' = "modes" /\ input' = input
      BY <2>2 DEF Cmask, Goto
    <3>3. Bit(Compares(input) /\ input.cmp = <<Sym("<")>>) = 0
      BY <3>1 DEF Bit
    <3> QED BY <1>1, <1>2, <3>1, <3>2, <3>3 DEF AfterCmp, Early, Late
  <2> QED BY <2>1, <2>2
<1> HIDE DEF AfterCmp, Late
<1> QED BY <1>3 DEF ReadInv

(* The meaning, when the modes are not heard, and when they end.           *)
LEMMA MeantUnheard ==
  ASSUME NEW p, NEW m, ~ Heard(p)
  PROVE  Late(p, m, 1, 0, 0) = Meant(p, m)
BY DEF Late, Meant

LEMMA MeantHeard ==
  ASSUME NEW p, NEW m, NEW n, Heard(p), Heeded(p, n) = Chosen(p)
  PROVE  Hearing(p, m, n) = Meant(p, m)
BY DEF Hearing, Late, Meant

LEMMA HeededNone ==
  ASSUME NEW p, NEW m
  PROVE  Hearing(p, m, 1) = Late(p, m, 0, 0, 0)
<1>1. Heeded(p, 1) = {}
  BY DEF Heeded
<1> QED BY <1>1 DEF Hearing, Bit

LEMMA ReadModes ==
  ASSUME FieldsInv, ReadInv, Modes
  PROVE  ReadInv'
<1>1. input \in Inputs /\ stage = "modes" /\ s = AfterCmp(input)
  BY DEF FieldsInv, ReadInv, Modes
<1>2. PICK m \in Meanings(input) : f = Late(input, m, 1, 0, 0)
  BY <1>1 DEF ReadInv
<1>3. (Begins(":") <=> Heard(input)) /\ (Heard(input) => s = input.modes)
  BY <1>1, ModesReads
<1>4. CASE Begins(":")
  <2>1. /\ stage' = "letters" /\ s' = Tail(s) /\ input' = input
        /\ f' = [f EXCEPT !.anythread = 0, !.user = 0, !.os = 0]
    BY <1>4 DEF Modes, Goto
  <2>2. Heard(input) /\ s = input.modes /\ input.modes \in Seq(Tokens) /\ input.modes # <<>>
    BY <1>1, <1>3, <1>4, PartsOf DEF Heard
  <2>3. s' = SubSeq(input.modes, 1 + 1, Len(input.modes))
    <3>1. Tail(input.modes) = SubSeq(input.modes, 2, Len(input.modes))
      BY <2>2, TailIsSubSeq
    <3> QED BY <2>1, <2>2, <3>1
  <2>4. f' = Hearing(input, m, 1)
    <3>1. f' = Late(input, m, 0, 0, 0)
      BY <1>2, <2>1 DEF Late
    <3> QED BY <3>1, HeededNone
  <2>5. 1 \in 1 .. Len(input.modes) /\ \A j \in 2 .. 1 : IsMode(input.modes[j])
    BY <2>2
  <2> QED BY <2>1, <2>2, <2>3, <2>4, <2>5 DEF ReadInv
<1>5. CASE ~ Begins(":")
  <2>1. stage' = "word" /\ s' = s /\ input' = input /\ f' = f
    BY <1>5 DEF Modes, Goto
  <2>2. f' = Meant(input, m)
    BY <1>2, <1>3, <1>5, <2>1, MeantUnheard
  <2> QED BY <2>1, <2>2 DEF ReadInv
<1> QED BY <1>4, <1>5

LEMMA LateSet ==
  ASSUME NEW p, NEW m, NEW a, NEW b, NEW c
  PROVE  /\ Late(p, m, 1, b, c) = [Late(p, m, a, b, c) EXCEPT !["user"] = 1]
         /\ Late(p, m, a, 1, c) = [Late(p, m, a, b, c) EXCEPT !["os"] = 1]
         /\ Late(p, m, a, b, 1) = [Late(p, m, a, b, c) EXCEPT !["anythread"] = 1]
<1> DEFINE e == Bit(p.star)  n == m[1].evt_num  u == m[2]
           i == Bit(Compares(p) /\ p.cmp = <<Sym("<")>>)
           k == IF Compares(p) THEN p.operand[1].v % 256 ELSE 0
           L(x, y, z) == [edge_triggered |-> e, evt_num |-> n, umask_val |-> u, user |-> x, os |-> y,
                          anythread |-> z, inv |-> i, cmask |-> k]
<1>1. ASSUME NEW x, NEW y, NEW z PROVE Late(p, m, x, y, z) = L(x, y, z)
  BY DEF Late
<1> HIDE DEF e, n, u, i, k
<1>2. /\ L(1, b, c) = [L(a, b, c) EXCEPT !["user"] = 1]
      /\ L(a, 1, c) = [L(a, b, c) EXCEPT !["os"] = 1]
      /\ L(a, b, 1) = [L(a, b, c) EXCEPT !["anythread"] = 1]
  <2>1. L(1, b, c) = [L(a, b, c) EXCEPT !["user"] = 1]
    OBVIOUS
  <2>2. L(a, 1, c) = [L(a, b, c) EXCEPT !["os"] = 1]
    OBVIOUS
  <2>3. L(a, b, 1) = [L(a, b, c) EXCEPT !["anythread"] = 1]
    OBVIOUS
  <2> QED BY <2>1, <2>2, <2>3
<1> HIDE DEF L
<1> QED BY <1>1, <1>2

(* One more letter.                                                        *)
LEMMA HeededMore ==
  ASSUME NEW p, NEW m, NEW n \in Nat, n >= 1, IsMode(p.modes[n + 1])
  PROVE  Hearing(p, m, n + 1) = [Hearing(p, m, n) EXCEPT ![Letters[p.modes[n + 1].v]] = 1]
<1> DEFINE x == Letters[p.modes[n + 1].v]
<1>1. Heeded(p, n + 1) = Heeded(p, n) \cup {x}
  <2>1. 2 .. n + 1 = 2 .. n \cup {n + 1}
    OBVIOUS
  <2> QED BY <2>1 DEF Heeded
<1>2. x = "anythread" \/ x = "user" \/ x = "os"
  BY DEF IsMode, Letters
<1> HIDE DEF x
<1>4. CASE x = "anythread"
  <2>1. /\ "anythread" \in Heeded(p, n + 1)
        /\ "user" \in Heeded(p, n + 1) <=> "user" \in Heeded(p, n)
        /\ "os" \in Heeded(p, n + 1) <=> "os" \in Heeded(p, n)
    BY <1>1, <1>4
  <2>2. /\ Bit("anythread" \in Heeded(p, n + 1)) = 1
        /\ Bit("user" \in Heeded(p, n + 1)) = Bit("user" \in Heeded(p, n))
        /\ Bit("os" \in Heeded(p, n + 1)) = Bit("os" \in Heeded(p, n))
    BY <2>1 DEF Bit
  <2>3. Hearing(p, m, n + 1) = [Hearing(p, m, n) EXCEPT !["anythread"] = 1]
    BY <2>2, LateSet DEF Hearing
  <2> QED BY <1>4, <2>3 DEF x
<1>5. CASE x = "user"
  <2>1. /\ "user" \in Heeded(p, n + 1)
        /\ "anythread" \in Heeded(p, n + 1) <=> "anythread" \in Heeded(p, n)
        /\ "os" \in Heeded(p, n + 1) <=> "os" \in Heeded(p, n)
    BY <1>1, <1>5
  <2>2. /\ Bit("user" \in Heeded(p, n + 1)) = 1
        /\ Bit("os" \in Heeded(p, n + 1)) = Bit("os" \in Heeded(p, n))
        /\ Bit("anythread" \in Heeded(p, n + 1)) = Bit("anythread" \in Heeded(p, n))
    BY <2>1 DEF Bit
  <2>3. Hearing(p, m, n + 1) = [Hearing(p, m, n) EXCEPT !["user"] = 1]
    BY <2>2, LateSet DEF Hearing
  <2> QED BY <1>5, <2>3 DEF x
<1>6. CASE x = "os"
  <2>1. /\ "os" \in Heeded(p, n + 1)
        /\ "anythread" \in Heeded(p, n + 1) <=> "anythread" \in Heeded(p, n)
        /\ "user" \in Heeded(p, n + 1) <=> "user" \in Heeded(p, n)
    BY <1>1, <1>6
  <2>2. /\ Bit("os" \in Heeded(p, n + 1)) = 1
        /\ Bit("user" \in Heeded(p, n + 1)) = Bit("user" \in Heeded(p, n))
        /\ Bit("anythread" \in Heeded(p, n + 1)) = Bit("anythread" \in Heeded(p, n))
    BY <2>1 DEF Bit
  <2>3. Hearing(p, m, n + 1) = [Hearing(p, m, n) EXCEPT !["os"] = 1]
    BY <2>2, LateSet DEF Hearing
  <2> QED BY <1>6, <2>3 DEF x
<1> QED BY <1>2, <1>4, <1>5, <1>6

(* The letters end at the first that is none.                              *)
LEMMA ChosenEnds ==
  ASSUME NEW p, p.modes \in Seq(Tokens), NEW n \in 1 .. Len(p.modes),
         \A j \in 2 .. n : IsMode(p.modes[j]),
         n = Len(p.modes) \/ ~ IsMode(p.modes[n + 1])
  PROVE  Heeded(p, n) = Chosen(p)
<1> DEFINE I == {k \in 2 .. Len(p.modes) : \A j \in 2 .. k : IsMode(p.modes[j])}
<1>1. Len(p.modes) \in Nat /\ n \in Nat /\ n <= Len(p.modes) /\ n >= 1
  OBVIOUS
<1>2. ASSUME NEW k \in 2 .. n PROVE k \in I
  <2>1. k \in 2 .. Len(p.modes)
    BY <1>1
  <2>2. \A j \in 2 .. k : j \in 2 .. n
    BY <1>1
  <2> QED BY <2>1, <2>2
<1>3. ASSUME NEW k \in I PROVE k \in 2 .. n
  <2>1. k \in 2 .. Len(p.modes) /\ \A j \in 2 .. k : IsMode(p.modes[j])
    OBVIOUS
  <2>2. SUFFICES ASSUME k > n PROVE FALSE
    BY <1>1, <2>1
  <2>3. n + 1 \in 2 .. k /\ n # Len(p.modes)
    BY <1>1, <2>1, <2>2
  <2> QED BY <2>1, <2>3
<1>4. I = 2 .. n
  BY <1>2, <1>3
<1>5. Chosen(p) = {Letters[p.modes[i].v] : i \in I}
  BY DEF Chosen
<1> HIDE DEF I
<1> QED BY <1>4, <1>5 DEF Heeded

LEMMA ReadLetter ==
  ASSUME FieldsInv, ReadInv, Letter
  PROVE  ReadInv'
<1>1. input \in Inputs /\ stage = "letters" /\ Heard(input)
  BY DEF FieldsInv, ReadInv, Letter
<1>2. PICK n \in 1 .. Len(input.modes) :
        /\ s = SubSeq(input.modes, n + 1, Len(input.modes))
        /\ \A j \in 2 .. n : IsMode(input.modes[j])
        /\ \E m \in Meanings(input) : f = Hearing(input, m, n)
  BY <1>1 DEF ReadInv
<1>3. PICK m \in Meanings(input) : f = Hearing(input, m, n)
  BY <1>2
<1>4. input.modes \in Seq(Tokens) /\ Len(input.modes) \in Nat /\ n \in Nat /\ n >= 1
  BY <1>1, PartsOf
<1>5. IF n = Len(input.modes) THEN s = <<>>
      ELSE /\ s # <<>> /\ s[1] = input.modes[n + 1]
           /\ Tail(s) = SubSeq(input.modes, (n + 1) + 1, Len(input.modes))
  <2> DEFINE t == input.modes  k == Len(input.modes)
  <2>0. t \in Seq(Tokens) /\ k = Len(t) /\ k \in Nat /\ n \in 1 .. k /\ s = SubSeq(t, n + 1, k)
    BY <1>2, <1>4
  <2> HIDE DEF t, k
  <2>1. CASE n = k
    BY <2>0, <2>1, SubSeqEmpty DEF t, k
  <2>2. CASE n # k
    <3>1. n + 1 \in 1 .. k /\ n + 1 \in Int /\ k \in n + 1 .. k /\ n + 1 <= k
      BY <2>0, <2>2
    <3>2. Tail(s) = SubSeq(t, (n + 1) + 1, k)
      BY <2>0, <3>1, HeadTailOfSubSeq
    <3>3. \A i \in n + 1 .. k : t[i] \in Tokens
      BY <2>0
    <3>4. /\ s \in Seq(Tokens) /\ Len(s) = k - (n + 1) + 1
          /\ \A i \in 1 .. k - (n + 1) + 1 : s[i] = t[(n + 1) + i - 1]
      BY <2>0, <3>1, <3>3, SubSeqProperties
    <3>5. k - (n + 1) + 1 >= 1 /\ 1 \in 1 .. k - (n + 1) + 1 /\ (n + 1) + 1 - 1 = n + 1
      BY <2>0, <3>1
    <3>6. s # <<>> /\ s[1] = t[n + 1]
      BY <3>4, <3>5
    <3> QED BY <2>2, <3>2, <3>6 DEF t, k
  <2> QED BY <2>1, <2>2 DEF k
<1>6. CASE s # <<>> /\ IsMode(s[1])
  <2>1. /\ stage' = "letters" /\ s' = Tail(s) /\ input' = input
        /\ f' = [f EXCEPT ![Letters[s[1].v]] = 1]
    BY <1>6 DEF Letter, Goto
  <2>2. n # Len(input.modes) /\ s[1] = input.modes[n + 1]
    BY <1>5, <1>6
  <2>3. n + 1 \in 1 .. Len(input.modes)
    BY <1>4, <2>2
  <2>4. \A j \in 2 .. n + 1 : IsMode(input.modes[j])
    <3>1. \A j \in 2 .. n + 1 : j \in 2 .. n \/ j = n + 1
      BY <1>4
    <3> QED BY <1>2, <1>6, <2>2, <3>1
  <2>5. f' = Hearing(input, m, n + 1)
    <3>1. /\ IsMode(input.modes[n + 1])
          /\ f' = [Hearing(input, m, n) EXCEPT ![Letters[input.modes[n + 1].v]] = 1]
      BY <1>3, <1>6, <2>1, <2>2
    <3>2. \A k \in Nat : k >= 1 /\ IsMode(input.modes[k + 1]) =>
            Hearing(input, m, k + 1) = [Hearing(input, m, k) EXCEPT ![Letters[input.modes[k + 1].v]] = 1]
      BY HeededMore
    <3> QED BY <1>4, <3>1, <3>2
  <2>6. s' = SubSeq(input.modes, (n + 1) + 1, Len(input.modes))
    BY <1>5, <2>1, <2>2
  <2> DEFINE i == n + 1
  <2>7. /\ i \in 1 .. Len(input.modes) /\ s' = SubSeq(input.modes, i + 1, Len(input.modes))
        /\ \A j \in 2 .. i : IsMode(input.modes[j])
        /\ f' = Hearing(input, m, i)
    BY <2>3, <2>4, <2>5, <2>6
  <2> HIDE DEF i
  <2> QED BY <1>1, <2>1, <2>7 DEF ReadInv
<1>7. CASE ~ (s # <<>> /\ IsMode(s[1]))
  <2>1. stage' = "word" /\ input' = input /\ f' = f
    BY <1>7 DEF Letter, Goto
  <2>2. n = Len(input.modes) \/ ~ IsMode(input.modes[n + 1])
    BY <1>5, <1>7
  <2>3. Heeded(input, n) = Chosen(input)
    BY <1>2, <1>4, <2>2, ChosenEnds
  <2>4. f' = Meant(input, m)
    BY <1>1, <1>3, <2>1, <2>3, MeantHeard
  <2> QED BY <2>1, <2>4 DEF ReadInv
<1> QED BY <1>6, <1>7

LEMMA ReadFinish ==
  ASSUME FieldsInv, ReadInv, Finish
  PROVE  ReadInv'
<1>1. stage = "word" /\ stage' = "done" /\ cfg' = Word(f) /\ f' = f /\ input' = input
  BY DEF Finish
<1>2. f \in FieldSet /\ f.evt_num # 0
  BY <1>1 DEF FieldsInv, HasEvent
<1>3. cfg' # Zero
  <2>1. BitsOf(Word(f).hi, 64, 2) = 1
    BY <1>2, Halves
  <2>2. BitsOf(0, 64, 2) = 0
    BY DEF BitsOf
  <2> QED BY <1>1, <2>1, <2>2 DEF Zero
<1>4. PICK m \in Meanings(input) : f = Meant(input, m)
  BY <1>1 DEF ReadInv
<1> QED BY <1>1, <1>3, <1>4 DEF ReadInv

(* What is left of the text and what was read of it are its parts.         *)
THEOREM ReadInvHolds == Spec => []ReadInv
<1>1. Init => ReadInv
  BY DEF Init, ReadInv
<1>2. FieldsInv /\ ReadInv /\ [Next]_vars => ReadInv'
  <2>1. SUFFICES ASSUME FieldsInv, ReadInv, [Next]_vars PROVE ReadInv'
    OBVIOUS
  <2>2. CASE UNCHANGED vars
    BY <2>1, <2>2 DEF vars, ReadInv
  <2> QED
    BY <2>1, <2>2, ReadBegin, ReadEventName, ReadEventNumber, ReadUmaskName, ReadUmaskNumber,
       ReadCmask, ReadModes, ReadLetter, ReadFinish DEF Next
<1> QED BY <1>1, <1>2, FieldsInvHolds, PTL DEF Spec

(* Without a repeated name an event has one umask for a text.              *)
LEMMA SaysOnce ==
  ASSUME NEW p \in Inputs, ~ Repeats(p), NEW i \in DOMAIN EventList, Knows(p, i),
         NEW u, NEW v, SaysUmask(p, EventList[i].umasks, u), SaysUmask(p, EventList[i].umasks, v)
  PROVE  u = v
<1> DEFINE us == EventList[i].umasks
<1>1. us \in Seq(Umask)
  BY Entries
<1>2. ASSUME NEW j \in DOMAIN us
      PROVE  us[j].name \in Seq(Pieces) /\ us[j].name # <<>> /\ \A n : us[j].name # <<Num(n)>>
  BY <1>1, <1>2, Umasks, NameOrNumber
<1>3. \A n : <<Num(n)>> # <<>>
  OBVIOUS
<1>4. \A a, b : <<Num(a)>> = <<Num(b)>> => a = b
  <2>1. \A x, y : <<x>> = <<y>> => x = y
    OBVIOUS
  <2> QED BY <2>1, Numbers
<1>5. \A j, k \in DOMAIN us :
        us[j].name = p.umask /\ us[k].name = p.umask => us[j].umask_val = us[k].umask_val
  BY DEF Repeats
<1> HIDE DEF us
<1>6. SaysUmask(p, us, u) /\ SaysUmask(p, us, v)
  BY DEF us
<1>7. CASE \E j \in DOMAIN us : p.umask = us[j].name
  <2>1. (\A n : p.umask # <<Num(n)>>) /\ p.umask # <<>>
    BY <1>2, <1>7
  <2>2. PICK j \in DOMAIN us : p.umask = us[j].name /\ u = us[j].umask_val
    BY <1>6, <2>1 DEF SaysUmask
  <2>3. PICK k \in DOMAIN us : p.umask = us[k].name /\ v = us[k].umask_val
    BY <1>6, <2>1 DEF SaysUmask
  <2> QED BY <1>5, <2>2, <2>3
<1>8. CASE ~ \E j \in DOMAIN us : p.umask = us[j].name
  <2>1. /\ p.umask = <<Num(u)>> \/ (p.umask = <<>> /\ u = 0)
        /\ p.umask = <<Num(v)>> \/ (p.umask = <<>> /\ v = 0)
    BY <1>6, <1>8 DEF SaysUmask
  <2> QED BY <1>3, <1>4, <2>1
<1> QED BY <1>7, <1>8

(* Understood, for every table without ambiguous events and every text: it *)
(* is accepted exactly if its event and umask are known, every field is    *)
(* what the parts of the text say, and only a name repeated among the      *)
(* umasks of one event can give it another meaning.                        *)
THEOREM UnderstoodHolds == Spec => []Understood
<1>1. ASSUME FieldsInv, ReadInv, stage = "done", ~ Repeats(input), NEW m \in Meanings(input)
      PROVE  f = Meant(input, m)
  <2>1. input \in Inputs
    BY <1>1 DEF FieldsInv
  <2>2. PICK n \in Meanings(input) : f = Meant(input, n)
    BY <1>1 DEF ReadInv
  <2>3. PICK i \in DOMAIN EventList, u \in Bytes :
          Knows(input, i) /\ SaysUmask(input, EventList[i].umasks, u) /\ m = <<EventList[i], u>>
    BY <2>1, MeaningsOf
  <2>4. PICK j \in DOMAIN EventList, v \in Bytes :
          Knows(input, j) /\ SaysUmask(input, EventList[j].umasks, v) /\ n = <<EventList[j], v>>
    BY <2>1, MeaningsOf
  <2>5. i = j
    BY <2>1, <2>3, <2>4, KnownOnce
  <2>6. u = v
    BY <1>1, <2>1, <2>3, <2>4, <2>5, SaysOnce
  <2> QED BY <2>2, <2>3, <2>4, <2>5, <2>6
<1>2. FieldsInv /\ ReadInv => Understood
  BY <1>1 DEF ReadInv, Understood
<1> QED BY <1>2, FieldsInvHolds, ReadInvHolds, PTL
=============================================================================
