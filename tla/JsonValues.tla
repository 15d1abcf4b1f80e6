------------------------------ MODULE JsonValues ------------------------------
(***************************************************************************)
(* JSON values, with what both languages make of them: the accessors the   *)
(* normalizers begin with, and where JavaScript and Python differ.  A      *)
(* string is a name (Str) or, where its characters matter, a Text.         *)
(***************************************************************************)
EXTENDS Integers, Sequences, FiniteSets, TLC

Absent == [t |-> "absent"]
Null == [t |-> "null"]
Str(s) == [t |-> "str", s |-> s]
Text(chars) == [t |-> "str", chars |-> chars]
Bool(b) == [t |-> "bool", b |-> b]
Num(n) == [t |-> "num", n |-> n]
Arr(a) == [t |-> "arr", a |-> a]
Rec(f) == [t |-> "rec", f |-> f]

(* A string whose base64 and JSON decode to a value.                       *)
Encoded(json) == [t |-> "str", s |-> "encoded", json |-> json]

(* A string composed of others, and one that spells a number.             *)
Line(values) == Text(values)
Spelled(n) == [t |-> "str", s |-> "digits", n |-> n]

IsRec(v) == v.t = "rec"

Get(v, key) == IF IsRec(v) /\ key \in DOMAIN v.f THEN v.f[key] ELSE Absent

asRecord(v) == IF IsRec(v) THEN v ELSE Null
asString(v) == IF v.t = "str" THEN v ELSE Null
asBoolean(v) == IF v.t = "bool" THEN v ELSE Null
asNumber(v) == IF v.t = "num" THEN v ELSE Null
asArray(v) == IF v.t = "arr" THEN v.a ELSE << >>

Given(v) == v.t \notin {"absent", "null"}

EmptyString(v) == v.t = "str" /\ IF "chars" \in DOMAIN v THEN v.chars = << >> ELSE v.s = ""

(* What counts as true in JavaScript; in Python, nothing empty does.       *)
Truthy(v) == Given(v) /\ ~EmptyString(v) /\ v # Bool(FALSE) /\ v # Num(0)

PyTruthy(v) == Truthy(v) /\ v # Arr(<< >>) /\ ~(IsRec(v) /\ DOMAIN v.f = {})

(* JavaScript's ?? and Python's or.                                        *)
a ?? b == IF Given(a) THEN a ELSE b

a || b == IF PyTruthy(a) THEN a ELSE b

Optional(condition, value) == IF condition THEN <<value>> ELSE << >>

Mapped(s, Op(_)) == [i \in DOMAIN s |-> Op(s[i])]

(* Whether a value is one of a sequence or of a record.                    *)
AnyOf(f, value) == \E x \in DOMAIN f : f[x] = value

(* A sort that keeps the order of what is equal, as both languages have.   *)
StableSort(s, Before(_, _)) ==
  LET numbered == [i \in DOMAIN s |-> <<i, s[i]>>]
      First(x, y) == \/ Before(x[2], y[2])
                     \/ ~Before(y[2], x[2]) /\ x[1] < y[1]
      sorted == SortSeq(numbered, First)
  IN [i \in DOMAIN s |-> sorted[i][2]]
=============================================================================
