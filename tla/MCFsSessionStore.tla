--------------------------- MODULE MCFsSessionStore ---------------------------
(***************************************************************************)
(* Instances of FsSessionStore for TLC.                                    *)
(***************************************************************************)
EXTENDS FsSessionStore

CONSTANTS c1, c2, n1, v1, v2  \* clients, a namespace, values

OneClient    == {c1}
TwoClients   == {c1, c2}
OneNamespace == {n1}
OneValue     == {v1}
TwoValues    == {v1, v2}

Name(stem, ext) == [stem |-> stem, ext |-> ext]

OneName     == {Name("a", "")}
\* Two of them share a file.
ThreeNames  == {Name("a", ""), Name("a", "x"), Name("b", "")}

Timeouts    == {0, 1}
OneTimeout  == {1}

Checked     == {TRUE}
Unchecked   == {FALSE}
BothBuilds  == BOOLEAN

AllOps      == [c \in Clients |-> {"get", "set", "expire", "del"}]
SetOnly     == [c \in Clients |-> {"set"}]
SetAndGetExpireDel ==
  [c \in Clients |-> IF c = c1 THEN {"set"} ELSE {"get", "expire", "del"}]
=============================================================================
