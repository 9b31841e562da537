----------------------------- MODULE MCClients -----------------------------
(***************************************************************************)
(* A small instance of Clients: offsets of one byte, and the options a     *)
(* tool is started with, offsets with one choice of the others.            *)
(***************************************************************************)
EXTENDS Clients

Decimal(sign, digits) == [sign |-> sign, digits |-> digits, junk |-> FALSE]

NoOffset == Decimal("", <<>>)

Offsets ==
    {Decimal(s, d) : s \in {"", "+", "-"},
                     d \in {<<5>>, <<1, 2, 7>>, <<1, 2, 8>>, <<2, 5, 6>>,
                            <<0, 0, 1, 7>>, <<1, 0, 0, 0, 0>>}}
    \cup {[Decimal("", <<1>>) EXCEPT !.junk = TRUE]}

Plain == [key |-> "none", password |-> "none", offset |-> NoOffset,
          unattended |-> FALSE, typed |-> "none"]

\* The offsets go with a wrong key, and nobody to ask: that is not mounted.
MCOptions ==
    {[Plain EXCEPT !.key = k, !.password = p, !.typed = t] :
        k \in {"none", "wrong"}, p \in {"none", "right"}, t \in {"wrong", "right"}}
    \cup {[Plain EXCEPT !.key = "right"],
          [Plain EXCEPT !.password = "wrong", !.unattended = TRUE],
          [Plain EXCEPT !.key = "malformed"]}
    \cup {[Plain EXCEPT !.offset = o, !.key = "wrong", !.unattended = TRUE] :
            o \in Offsets}

MCPaths == {Root, Path("/luksde", <<1>>), Path("/LUKSDE", <<0, 1>>),
            Path("/other", <<1>>)}
=============================================================================
