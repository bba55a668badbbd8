-------------------------------- MODULE PhEvt --------------------------------
(***************************************************************************)
(* The event parser of the x86 probe (ph_pmu_parse_cfg in ph_evt_x86.c):   *)
(*                                                                         *)
(*   [*] event . umask [ >= n | < n ] [ : {a|u|k} ]                        *)
(*                                                                         *)
(* with an event or a umask given by name or by number.  A text is a       *)
(* sequence of tokens: numbers, symbols, and pieces of names, since names  *)
(* of the tables begin with other names.  A token stands for its upper and *)
(* lower case spellings, a number for its decimal, octal and hexadecimal   *)
(* ones.  A user writes the parts in their order; what is behind the colon *)
(* may be anything.                                                        *)
(***************************************************************************)
EXTENDS Integers, Sequences, SequencesExt, FiniteSetsExt

CONSTANTS
  EventList,  \* EVENT_LIST with the part of UMASK_LIST each entry points to
  Inputs      \* texts, as the parts a user writes

Num(n) == [k |-> "num", v |-> n]
Name(w) == [k |-> "name", v |-> w]
Sym(c) == [k |-> "sym", v |-> c]
Pieces == [k : {"name"}, v : STRING]
Plain == [k : {"num"}, v : Nat] \cup Pieces
Tokens == Plain \cup [k : {"sym"}, v : {"*", ".", "<", ">=", ":"}]
Bytes == 0 .. 255
Umask == [umask_val : Bytes, name : Seq(Pieces) \ {<<>>}]
Event == [evt_num : Bytes \ {0}, umasks : Seq(Umask), name : Seq(Pieces) \ {<<>>}]
(* In the table no two events have the same name or number; umasks may.    *)
ASSUME EvtAssumption ==
  /\ EventList \in Seq(Event)
  /\ \A i, j \in DOMAIN EventList :
       EventList[i].name = EventList[j].name \/ EventList[i].evt_num = EventList[j].evt_num => i = j
Parts == [star : BOOLEAN, dot : BOOLEAN, event : Seq(Plain), umask : Seq(Plain),
          cmp : {<<>>, <<Sym("<")>>, <<Sym(">=")>>}, operand : Seq(Plain), modes : Seq(Tokens)]
ASSUME InputsAssumption ==
  /\ Inputs \subseteq Parts
  /\ \A p \in Inputs : /\ p.cmp = <<>> => p.operand = <<>>
                       /\ p.modes = <<>> \/ p.modes[1] = Sym(":")

VARIABLES
  input,  \* the parts of the text
  s,      \* what is left of the text
  stage,  \* what is read next
  umasks, \* umask_list
  f,      \* the fields found so far
  cfg     \* the configuration word, as its two halves of 16 bits
vars == <<input, s, stage, umasks, f, cfg>>

Defaults == [edge_triggered |-> 0, evt_num |-> 0, umask_val |-> 0, user |-> 1, os |-> 0,
             anythread |-> 0, inv |-> 0, cmask |-> 0]
Zero == [hi |-> 0, lo |-> 0]
(* What _ph_parse_event makes of 0, and ph_set_evt takes for no event.     *)
Unsupported == [hi |-> 65535, lo |-> 65535]
_ph_parse_event(w) == IF w = Zero THEN Unsupported ELSE w

(* What may come behind the umask, and a whole text.                       *)
Rest(p) == p.cmp \o (p.operand \o p.modes)
Text(p) ==
  (IF p.star THEN <<Sym("*")>> ELSE <<>>)
    \o (p.event \o ((IF p.dot THEN <<Sym(".")>> ELSE <<>>) \o (p.umask \o Rest(p))))

Init ==
  /\ input \in Inputs /\ s = Text(input) /\ stage = "begin"
  /\ umasks = <<>> /\ f = Defaults /\ cfg = Zero

-----------------------------------------------------------------------------
Begins(c) == s # <<>> /\ s[1] = Sym(c)
Digit(n) == Len(s) >= n /\ s[n].k = "num"
(* strtoull: without digits it returns 0 and stays where it is.            *)
Value == IF Digit(1) THEN s[1].v ELSE 0
Behind == IF Digit(1) THEN Tail(s) ELSE s
Drop(n) == SubSeq(s, n + 1, Len(s))
Reject == stage' = "done" /\ UNCHANGED <<input, s, umasks, f, cfg>>
Goto(st, rest) == stage' = st /\ s' = rest /\ UNCHANGED <<input, cfg>>

Begin ==
  /\ stage = "begin"
  /\ \/ s = <<>> /\ Reject
     \/ s # <<>> /\ ~Begins("*") /\ Goto("event", s) /\ UNCHANGED <<umasks, f>>
     \/ Begins("*") /\ Goto("event", Tail(s)) /\ f' = [f EXCEPT !.edge_triggered = 1]
        /\ UNCHANGED umasks

(* The first entry whose name is followed by a dot, else a number.         *)
Named == {i \in DOMAIN EventList : IsPrefix(EventList[i].name \o <<Sym(".")>>, s)}
Numbered == {i \in DOMAIN EventList : EventList[i].evt_num = Value}
Take(i, rest) ==
  /\ Goto("umask", rest) /\ umasks' = EventList[i].umasks
  /\ f' = [f EXCEPT !.evt_num = EventList[i].evt_num]
EventName ==
  /\ stage = "event" /\ Named # {}
  /\ Take(Min(Named), Drop(Len(EventList[Min(Named)].name) + 1))
EventNumber ==
  /\ stage = "event" /\ Named = {}
  /\ IF Behind # <<>> /\ Head(Behind) = Sym(".") /\ Value <= 255 /\ Numbered # {}
     THEN Take(Min(Numbered), Tail(Behind))
     ELSE Reject

(* The first umask whose name ends here, else a number.                    *)
Over(rest) == rest = <<>> \/ Head(rest) \in {Sym("<"), Sym(">="), Sym(":")}
Fits_Prefix(i) == IsPrefix(umasks[i].name, s)
Fits(i) == IsPrefix(umasks[i].name, s) /\ Over(Drop(Len(umasks[i].name)))
UmaskName ==
  /\ stage = "umask"
  /\ LET found == {j \in DOMAIN umasks : Fits(j)}
     IN  /\ found # {} /\ Goto("cmask", Drop(Len(umasks[Min(found)].name)))
         /\ f' = [f EXCEPT !.umask_val = umasks[Min(found)].umask_val] /\ UNCHANGED umasks
UmaskNumber ==
  /\ stage = "umask" /\ \A j \in DOMAIN umasks : ~Fits(j)
  /\ IF Value <= 255 /\ Over(Behind)
     THEN Goto("cmask", Behind) /\ f' = [f EXCEPT !.umask_val = Value] /\ UNCHANGED umasks
     ELSE Reject

(* A comparison counts only when a digit follows; otherwise it stays, and  *)
(* hides the modes.                                                        *)
Byte_All(n) == n
Byte(n) == n % 256
Comparison == (Begins(">=") \/ Begins("<")) /\ Digit(2)
Cmask ==
  /\ stage = "cmask" /\ UNCHANGED umasks
  /\ IF Comparison
     THEN /\ Goto("modes", Drop(2))
          /\ f' = [f EXCEPT !.cmask = Byte(s[2].v), !.inv = IF Begins("<") THEN 1 ELSE 0]
     ELSE Goto("modes", s) /\ UNCHANGED f

Letters == [a |-> "anythread", u |-> "user", k |-> "os"]
IsMode(t) == t.k = "name" /\ t.v \in DOMAIN Letters
Modes ==
  /\ stage = "modes" /\ UNCHANGED umasks
  /\ IF Begins(":")
     THEN /\ Goto("letters", Tail(s))
          /\ f' = [f EXCEPT !.anythread = 0, !.user = 0, !.os = 0]
     ELSE Goto("word", s) /\ UNCHANGED f
Letter ==
  /\ stage = "letters" /\ UNCHANGED umasks
  /\ IF s # <<>> /\ IsMode(s[1])
     THEN Goto("letters", Tail(s)) /\ f' = [f EXCEPT ![Letters[s[1].v]] = 1]
     ELSE Goto("word", s) /\ UNCHANGED f

(* The word of an event; bit 22 enables the counter.                       *)
Word(g) ==
  [hi |-> g.cmask * 256 + g.inv * 128 + 64 + g.anythread * 32 + g.edge_triggered * 4 + g.os * 2 + g.user,
   lo |-> g.umask_val * 256 + g.evt_num]
Finish ==
  /\ stage = "word" /\ stage' = "done" /\ cfg' = Word(f) /\ UNCHANGED <<input, s, umasks, f>>

Next ==
  \/ Begin \/ EventName \/ EventNumber \/ UmaskName \/ UmaskNumber \/ Cmask \/ Modes \/ Letter
  \/ Finish
Spec == Init /\ [][Next]_vars

-----------------------------------------------------------------------------
(* What the parts say.  Events and umasks of the tables are known by name  *)
(* and number; a umask may also be any byte, or missing for 0.             *)
Meanings(p) ==
  {m \in Range(EventList) \X Bytes :
     /\ p.dot /\ p.event \in {m[1].name, <<Num(m[1].evt_num)>>}
     /\ \/ \E w \in Range(m[1].umasks) : p.umask = w.name /\ m[2] = w.umask_val
        \/ p.umask = <<Num(m[2])>>
        \/ p.umask = <<>> /\ m[2] = 0}
Compares(p) == p.cmp # <<>> /\ p.operand # <<>> /\ p.operand[1].k = "num"
(* The modes are heard when nothing is left in front of their colon.  Those*)
(* are read that stand before anything else than a mode.                   *)
Heard(p) == p.modes # <<>> /\ (p.cmp = <<>> \/ (Compares(p) /\ Len(p.operand) = 1))
Chosen(p) ==
  {Letters[p.modes[i].v] : i \in {n \in 2 .. Len(p.modes) : \A j \in 2 .. n : IsMode(p.modes[j])}}
Bit(b) == IF b THEN 1 ELSE 0
Meant(p, m) ==
  LET on(mode, default) == IF Heard(p) THEN Bit(mode \in Chosen(p)) ELSE default
  IN  [edge_triggered |-> Bit(p.star), evt_num |-> m[1].evt_num, umask_val |-> m[2],
       user |-> on("user", 1), os |-> on("os", 0), anythread |-> on("anythread", 0),
       inv |-> Bit(Compares(p) /\ p.cmp = <<Sym("<")>>),
       cmask |-> IF Compares(p) THEN p.operand[1].v % 256 ELSE 0]

(* In the table one event has two umasks of one name (lines 99 and 101), of*)
(* which the second cannot be reached by its name.  A text repeats a name  *)
(* if it gives one that stands for two values in its event.                *)
Knows(p, i) == p.dot /\ p.event \in {EventList[i].name, <<Num(EventList[i].evt_num)>>}
Repeats(p) ==
  \E i \in DOMAIN EventList :
    /\ Knows(p, i)
    /\ \E j, k \in DOMAIN EventList[i].umasks :
         /\ EventList[i].umasks[j].name = p.umask /\ EventList[i].umasks[k].name = p.umask
         /\ EventList[i].umasks[j].umask_val # EventList[i].umasks[k].umask_val

(* A text is accepted exactly if its event and umask are known, and then   *)
(* means what its parts say, the one thing they can say unless a name is   *)
(* repeated: a name never stands for another one that it begins with,      *)
(* whatever comes first in the tables.  A comparison without a number is   *)
(* not an error: it and the modes behind it are ignored.                   *)
Understood ==
  stage = "done" =>
    /\ cfg # Zero <=> Meanings(input) # {}
    /\ cfg # Zero => \E m \in Meanings(input) : f = Meant(input, m)
    /\ ~Repeats(input) => \A m \in Meanings(input) : f = Meant(input, m)

(* No field of a word spills into its neighbour or out of the 32 bits,     *)
(* bits 19 and 20, which the kernel module forbids, are 0, and so an event *)
(* is never taken for the one that does not exist.                         *)
BitsOf(n, place, span) == (n \div place) % span
Apart ==
  stage = "done" /\ cfg # Zero =>
    /\ cfg.hi < 65536 /\ cfg.lo < 65536 /\ _ph_parse_event(cfg) # Unsupported
    /\ BitsOf(cfg.hi, 8, 4) = 0 /\ BitsOf(cfg.hi, 64, 2) = 1
    /\ f = [edge_triggered |-> BitsOf(cfg.hi, 4, 2), evt_num |-> BitsOf(cfg.lo, 1, 256),
            umask_val |-> BitsOf(cfg.lo, 256, 256), user |-> BitsOf(cfg.hi, 1, 2),
            os |-> BitsOf(cfg.hi, 2, 2), anythread |-> BitsOf(cfg.hi, 32, 2),
            inv |-> BitsOf(cfg.hi, 128, 2), cmask |-> BitsOf(cfg.hi, 256, 256)]
=============================================================================
