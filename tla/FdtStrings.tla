----------------------------- MODULE FdtStrings -----------------------------
(***************************************************************************)
(* Properties that are lists of strings (the fdt_stringlist_ functions of  *)
(* libfdt/fdt_ro.c).  Here a word of a value is a character, and NUL ends  *)
(* a string; the last string of a list may lack it.                        *)
(***************************************************************************)
EXTENDS FdtPhandle

NUL == Value(0)

(* strnlen of the string at place i.                                       *)
Strnlen(list, i) ==
  LET Go[j \in Nat] == IF j > Len(list) \/ list[j] = NUL THEN j - i ELSE Go[j + 1] IN Go[i]

Unended(list, i) == i + Strnlen(list, i) > Len(list)
Behind(list, i)  == i + Strnlen(list, i) + 1          \* where the next string begins
StringAt(list, i) == SubSeq(list, i, i + Strnlen(list, i) - 1)

(* The value of a property, or the error of the look-up, to a function.    *)
OnList(t, o, name, F(_)) ==
  LET At(p) == IF p < 0 THEN p ELSE F(PropValue(t, p)) IN At(PropOffset(t, o, name))

CountIn(list) ==
  LET Go[i \in Nat, count \in Nat] ==
        IF i > Len(list) THEN count
        ELSE IF Unended(list, i) THEN BADVALUE
        ELSE Go[Behind(list, i), count + 1]
  IN  Go[1, 0]
StringlistCount(t, o, name) == OnList(t, o, name, CountIn)

SearchInPrefix(list, string) ==                 \* mutant: the lengths not compared
  LET Go[i \in Nat, idx \in Nat] ==
        IF i > Len(list) THEN NOTFOUND
        ELSE IF Unended(list, i) THEN BADVALUE
        ELSE IF SubSeq(StringAt(list, i), 1, Len(string)) = string THEN idx
        ELSE Go[Behind(list, i), idx + 1]
  IN  Go[1, 0]
SearchIn(list, string) ==
  LET Go[i \in Nat, idx \in Nat] ==
        IF i > Len(list) THEN NOTFOUND
        ELSE IF Unended(list, i) THEN BADVALUE
        ELSE IF StringAt(list, i) = string THEN idx
        ELSE Go[Behind(list, i), idx + 1]
  IN  Go[1, 0]
StringlistSearch(t, o, name, string) == OnList(t, o, name, LAMBDA list : SearchIn(list, string))

(* Where the string number idx begins in the value, or an error.           *)
GetIn(list, idx) ==
  LET Go[i \in Nat, k \in Int] ==
        IF i > Len(list) THEN NOTFOUND
        ELSE IF Unended(list, i) THEN BADVALUE
        ELSE IF k = 0 THEN i
        ELSE Go[Behind(list, i), k - 1]
  IN  Go[1, idx]
StringlistGet(t, o, name, idx) == OnList(t, o, name, LAMBDA list : GetIn(list, idx))

(* fdt_stringlist_contains compares the NUL too, even when the string ends *)
(* with the list: past is the character behind it.                         *)
StringlistContains(list, string, past) ==
  LET Same(i) == SubSeq(Append(list, past), i, i + Len(string)) = Append(string, NUL)
      Go[i \in Nat] == IF Len(list) - i + 1 < Len(string) THEN FALSE
                       ELSE IF Same(i) THEN TRUE
                       ELSE IF Unended(list, i) THEN FALSE
                       ELSE Go[Behind(list, i)]
  IN  Go[1]
=============================================================================
