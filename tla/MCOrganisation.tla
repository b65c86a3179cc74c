--------------------------- MODULE MCOrganisation ---------------------------
(***************************************************************************)
(* A small instance: one organisation's lists, and two built-in brands     *)
(* with three that can be offered (two spellings of one name among them).  *)
(***************************************************************************)
EXTENDS Organisation

MCForms == [mail |-> <<"host">>]

Kaspi == <<1, 2, 3, 4, 5>>
Kasbi == <<1, 2, 3, 2, 5>>
Halyk == <<6, 2, 7, 8, 9>>
Secure == <<3, 3, 3, 3, 3>>

MCSld == "kaspi.kz" :> Kaspi @@ "halyk.kz" :> Halyk @@ "kasbi.com" :> Kasbi

Host(under, labels, sld, disguised) ==
    [under |-> under, labels |-> labels, sld |-> sld, disguised |-> disguised]

MCHosts ==
       "mail.kaspi.kz"    :> Host({"kaspi.kz"}, {Kaspi}, Kaspi, FALSE)
    @@ "kasbi.com"        :> Host({"kasbi.com"}, {Kasbi}, Kasbi, FALSE)
    @@ "halyk.kaspi-x.ru" :> Host({"x.ru"}, {Halyk, Kaspi}, Secure, TRUE)
    @@ "none"             :> Host({}, {}, <<>>, FALSE)

Brand(name, spelled, rank, domains, keywords, logo, colours) ==
    [name |-> name, spelled |-> spelled, rank |-> rank, org |-> NoOrg, domains |-> domains,
     esp |-> {}, words |-> {}, keywords |-> keywords, locale |-> name, logo |-> logo,
     colours |-> colours]

MCBuiltIn ==
    <<Brand("kaspi", "Kaspi", 2, {"kaspi.kz"}, {"gold"}, "red logo", <<>>),
      Brand("halyk", "Halyk", 1, {"halyk.kz"}, {"bank", "gold"}, "none", <<"green">>)>>

MCOffers ==
    {Brand("kasbi", "Kasbi", 4, {"kasbi.com"}, {}, "none", <<>>),
     Brand("kasbi", "KASBI", 3, {"kaspi.kz"}, {"bank"}, "none", <<"green">>),
     Brand("kaspi", "Kaspi", 2, {"kasbi.com"}, {"gold"}, "none", <<>>)}

MCHashDistance == <<"h", "red logo">> :> 4
MCColourDistance == <<"green", "green">> :> 0

Mail(from, links, images, words) ==
    [from |-> from, links |-> links, images |-> images, words |-> words]

MCMails ==
    {Mail("mail.kaspi.kz", <<>>, <<>>, {}),
     Mail("none", <<"mail.kaspi.kz", "kasbi.com">>, <<>>, {"bank"}),
     Mail("none", <<"kasbi.com", "halyk.kaspi-x.ru">>, <<>>, {}),
     Mail("none", <<>>, <<[hash |-> "h", colours |-> <<"green">>]>>, {"gold"}),
     Mail("none", <<>>, <<[hash |-> "bad", colours |-> <<"green">>]>>, {"gold"}),
     Mail("kasbi.com", <<>>, <<>>, {"gold", "bank"})}

MCWords == UNION {[1..n -> {1, 2}] : n \in 0..3} \cup [1..4 -> {1, 2}]
=============================================================================
