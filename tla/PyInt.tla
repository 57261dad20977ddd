-------------------------------- MODULE PyInt --------------------------------
(***************************************************************************)
(* Python's int(s) for a str s in base 10, the conversion config._int_env, *)
(* adapter.fix_permissions and PermissionFixer.fix_permissions apply to    *)
(* environment strings. A string is a sequence of one-character strings.   *)
(* CPython strips surrounding whitespace, takes one optional sign, then    *)
(* digits in which single underscores may separate two digits; anything   *)
(* else raises ValueError. Only " " stands for whitespace here.            *)
(***************************************************************************)
EXTENDS Integers, Sequences, SequencesExt

DigitValue ==
    ("0" :> 0) @@ ("1" :> 1) @@ ("2" :> 2) @@ ("3" :> 3) @@ ("4" :> 4)
    @@ ("5" :> 5) @@ ("6" :> 6) @@ ("7" :> 7) @@ ("8" :> 8) @@ ("9" :> 9)

Digits == DOMAIN DigitValue

\* The result of a conversion: a value, or ValueError
Parsed(n) == [ok |-> TRUE, val |-> n]
ValueError == [ok |-> FALSE, val |-> 0]

-----------------------------------------------------------------------------
(* The conversion, one character at a time, the way the C loop scans it.  *)

RECURSIVE SkipSpaces(_)
SkipSpaces(s) == IF s # <<>> /\ Head(s) = " " THEN SkipSpaces(Tail(s)) ELSE s

\* Scan the digits after the sign. `st` is "start" (a digit must come),
\* "digit" (after a digit), "under" (after "_", a digit must come) or
\* "trail" (trailing whitespace); acc is the magnitude so far.
RECURSIVE ScanDigits(_, _, _)
ScanDigits(s, st, acc) ==
    IF s = <<>>
    THEN IF st \in {"digit", "trail"} THEN Parsed(acc) ELSE ValueError
    ELSE LET c == Head(s) IN
         CASE c \in Digits /\ st \in {"start", "digit", "under"} ->
                  ScanDigits(Tail(s), "digit", 10 * acc + DigitValue[c])
           [] c = "_" /\ st = "digit" -> ScanDigits(Tail(s), "under", acc)
           [] c = " " /\ st \in {"digit", "trail"} -> ScanDigits(Tail(s), "trail", acc)
           [] OTHER -> ValueError

PyInt(s) ==
    LET t == SkipSpaces(s)
        neg == t # <<>> /\ Head(t) = "-"
        body == IF t # <<>> /\ Head(t) \in {"+", "-"} THEN Tail(t) ELSE t
        r == ScanDigits(body, "start", 0)
    IN  IF r.ok /\ neg THEN Parsed(-r.val) ELSE r

-----------------------------------------------------------------------------
(* Reference: the accepted strings described as a whole, not scanned.     *)

AllIn(s, S) == \A i \in DOMAIN s : s[i] \in S

\* Digits with single underscores between them
IsDigitRun(b) ==
    /\ b # <<>> /\ AllIn(b, Digits \cup {"_"})
    /\ Head(b) \in Digits /\ Last(b) \in Digits
    /\ \A i \in 1..(Len(b) - 1) : b[i] = "_" => b[i + 1] \in Digits

DecimalValue(b) ==
    FoldLeft(LAMBDA acc, c : 10 * acc + DigitValue[c], 0,
             SelectSeq(b, LAMBDA c : c \in Digits))

\* The ways s splits into spaces, a sign, a digit run and spaces
Splits(s) ==
    {<<i, j, k>> \in (0..Len(s)) \X (0..Len(s)) \X (0..Len(s)) :
        /\ i <= j /\ j <= i + 1 /\ j < k
        /\ AllIn(SubSeq(s, 1, i), {" "})
        /\ (j = i + 1 => s[j] \in {"+", "-"})
        /\ IsDigitRun(SubSeq(s, j + 1, k))
        /\ AllIn(SubSeq(s, k + 1, Len(s)), {" "})}

RefInt(s) ==
    IF Splits(s) = {} THEN ValueError
    ELSE LET sp == CHOOSE x \in Splits(s) : TRUE
             v == DecimalValue(SubSeq(s, sp[2] + 1, sp[3]))
         IN  Parsed(IF sp[2] = sp[1] + 1 /\ s[sp[2]] = "-" THEN -v ELSE v)

=============================================================================
