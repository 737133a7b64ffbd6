--------------------------- MODULE MCFundCatalogue ---------------------------
(* Catalogues and files for FundCatalogue: one or two items, numbered 1 and 2. *)
EXTENDS FundCatalogue

Item(ext, sym, name, type, statistical, cancel, active) ==
    [ext |-> ext, sym |-> sym, name |-> name, type |-> type,
     statistical |-> statistical, cancel |-> cancel, active |-> active]
Fund(ext, sym, name) == Item(ext, sym, name, "index", 5, 4, TRUE)

Sent == {
    \* In order, and with the symbols of two funds exchanged.
    <<Fund(1, "S", "N"), Fund(2, "T", "M")>>,
    <<Fund(1, "T", "N"), Fund(2, "S", "M")>>,
    \* A fund that shares its name with another one.
    <<Fund(1, "S", "N"), Fund(2, None, "N")>>,
    \* A name in two types.
    <<Item(2, None, "N", "gold", 5, 4, TRUE)>>,
    \* A number that takes the row of another one, which then comes itself.
    <<Fund(2, "S", "L"), Fund(1, None, "M")>>,
    \* The same number twice: with the same data, with a type that is left out.
    <<Fund(1, "S", "N"), Fund(1, "S", "M")>>,
    <<Item(1, "S", "N", "other", 5, 4, TRUE), Fund(1, "S", "N")>>,
    \* Without a NAV, closed, with a NAV of zero and with a negative one.
    <<Item(1, "S", "N", "gold", None, None, TRUE), Item(2, None, "M", "gold", 0, 4, FALSE)>>,
    <<Item(1, "S", "N", "gold", 0, 0, TRUE)>>,
    <<Item(2, "T", "M", "index", -1, 4, TRUE)>>}

\* A number twice, with two symbols; two funds with one name, of which the chain asks
\* the histories; a type FIPIRAN does not know and a bad row.
Written == {
    <<Item(1, "S", "N", "index", None, 4, TRUE), Item(1, "T", "N", "index", None, 4, TRUE)>>,
    <<Fund(1, "S", "N"), Fund(2, None, "N")>>,
    <<Item(2, None, "M", "other", None, 4, TRUE), Item(None, "S", "N", "index", 5, 4, TRUE)>>}

\* Number 1 is a fund that has just been founded.
Founded == <<1, 0>>
=============================================================================
