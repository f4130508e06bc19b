------------------------------- MODULE MCMesh -------------------------------
(***************************************************************************)
(* Mesh for TLC: two servers, the first with an address, n1, and a host    *)
(* name, h1, the second with an address that begins with the other one,    *)
(* n10.  The lists are in every form, right and wrong.                     *)
(***************************************************************************)
EXTENDS Mesh

CONSTANTS s1, s2, n1, n10, h1, x

MCNames == {n1, n10, h1, x}

MCAt == [n \in MCNames |-> CASE n \in {n1, h1} -> s1
                             [] n = n10 -> s2
                             [] OTHER -> Nobody]
MCIP == [n \in MCNames |-> CASE n = h1 -> n1 [] n = x -> None [] OTHER -> n]
MCWithin == [n \in MCNames |-> IF n = n1 THEN {n1, n10} ELSE {n}]

Flags(r1, b1, r2) ==
  [s \in {s1, s2} |-> IF s = s1 THEN [realIP |-> r1, bind |-> b1]
                                ELSE [realIP |-> r2, bind |-> None]]
MCSetups == {Flags(n1, None, n10), Flags(None, n1, None)}

Name(n)       == [hosts |-> <<n>>, ellipses |-> FALSE, suffix |-> FALSE]
Braces(names) == [hosts |-> names, ellipses |-> TRUE, suffix |-> FALSE]
Flag(items, dns) ==
  [form |-> "flag", items |-> items, comma |-> FALSE, newline |-> FALSE, dns |-> dns]
File(names, comma, newline) ==
  [form |-> "file", items |-> [j \in DOMAIN names |-> Name(names[j])],
   comma |-> comma, newline |-> newline, dns |-> FALSE]

MCInputs ==
  {Flag(<<Braces(<<n1, n10>>), Name(h1)>>, FALSE),
   Flag(<<Name(h1), Name(n1)>>, TRUE),
   Flag(<<Name(n10), Name(x)>>, TRUE),
   Flag(<<Name(n10), [Braces(<<n1>>) EXCEPT !.suffix = TRUE]>>, FALSE),
   File(<<h1>>, FALSE, TRUE),
   File(<<n1, n10>>, TRUE, FALSE),
   File(<<n1, n10>>, TRUE, TRUE),
   File(<<n1>>, FALSE, FALSE),
   [File(<<n1>>, FALSE, FALSE) EXCEPT !.form = "unreadable"]}
=============================================================================
