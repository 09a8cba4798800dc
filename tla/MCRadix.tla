------------------------------ MODULE MCRadix ------------------------------
(* Small instances of Radix.tla. *)
EXTENDS RadixLookups

RthFor(addr, len, copy) == [addr |-> addr, len |-> len, copy |-> copy]

\* A node with two children that has a brother, two heads for its prefix, and
\* a node on the way to one of the children.  Bits behind a prefix are set.
Family == {RthFor(<<0, 1, 0>>, 1, 1), RthFor(<<0, 0, 1>>, 1, 2), RthFor(<<0, 0, 0>>, 3, 1),
           RthFor(<<0, 1, 1>>, 2, 1), RthFor(<<1, 0, 1>>, 2, 1)}
=============================================================================
