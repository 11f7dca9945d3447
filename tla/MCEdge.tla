------------------------------- MODULE MCEdge -------------------------------
(***************************************************************************)
(* Model checking of Edge: a command line, a menu and a browser with a     *)
(* request each, all behind nginx; of them one may enter in a window of    *)
(* one tick.                                                               *)
(***************************************************************************)
EXTENDS Edge, TLC

CONSTANTS cli, menu, browser, nginx

MCClients == {cli, menu, browser}
MCHosts   == {nginx}
MCHostOf  == [c \in MCClients |-> nginx]
MCFrom    == <<cli, menu, browser>>
MCOnce    == {cli}
MCMenu    == {menu}

\* The default, a service without browsers and fallback, and one without limit.
MCConfs == {[limited |-> TRUE,  cors |-> TRUE,  probes |-> 2],
            [limited |-> TRUE,  cors |-> FALSE, probes |-> 1],
            [limited |-> FALSE, cors |-> FALSE, probes |-> 0]}

Digits(s)  == [i \in DOMAIN s |-> <<"digit", s[i]>>]
Letters(s) == [i \in DOMAIN s |-> <<"lower", s[i]>>]

\* us-rc17607839 between blanks, with or without one within, and the 1 and the 9 in
\* digits of any script.
UsRc(one, gap, nine) ==
  <<<<"blank", 0>>>> \o Letters(<<"u", "s">>) \o <<<<"dash", 0>>>> \o Letters(<<"r", "c">>)
    \o <<one>> \o gap \o Digits(<<7, 6, 0, 7, 8, 3>>) \o <<nine, <<"space", 0>>>>
One         == <<"digit", 1>>
ForeignOne  == <<"foreign digit", 1>>
ForeignNine == <<"foreign digit", 9>>

\* A UPC-A right and mistyped, an EAN-8 mistyped (96385074 is right), an EAN-13, a
\* GTIN-14 around it, a genuine GTIN-14 with indicator 1, and a text that is too long.
UpcA    == Digits(<<0, 3, 6, 0, 0, 0>>) \o <<<<"dash", 0>>>> \o Digits(<<2, 9, 1, 4, 5, 2>>)
Wrong   == Digits(<<0, 3, 6, 0, 0, 0, 2, 9, 1, 4, 5, 3>>)
Eight   == Digits(<<9, 6, 3, 8, 5, 0, 7, 5>>)
Ean     == Digits(<<5, 9, 0, 1, 2, 3, 4, 1, 2, 3, 4, 5, 7>>)
Gtin    == Digits(<<1>>) \o Ean
Genuine1 == Digits(<<1, 5, 9, 0, 1, 2, 3, 4, 1, 2, 3, 4, 5, 4>>)
Long    == [i \in 1..33 |-> <<"digit", 5>>]

MCTexts ==
  (cli :> [isrc |-> {UsRc(One, <<>>, ForeignNine), UsRc(One, <<<<"space", 0>>>>, ForeignNine)},
           upc  |-> {}])
    @@ (menu :> [isrc |-> {UsRc(One, <<<<"blank", 0>>>>, ForeignNine),
                           UsRc(ForeignOne, <<>>, ForeignNine)},
                 upc  |-> {UpcA, Wrong, Eight, Genuine1}])
    @@ (browser :> [isrc |-> {}, upc |-> {Ean, Gtin, Long}])

MCVisits == (cli :> {}) @@ (menu :> {}) @@ (browser :> Paths \ {"lookup"})

=============================================================================
