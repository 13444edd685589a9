------------------------ MODULE MCCertificatePage ------------------------
(* Two certificates, one more created by the page; entries of domains with *)
(* a wildcard before and after a domain it covers, and one that it does    *)
(* not.                                                                    *)
EXTENDS CertificatePage, TLC

CONSTANTS x, y, com, example, www

Apex == <<example, com>>
Wild == <<Star, example, com>>
Www == <<www, example, com>>
MCEntries == {<<>>, <<Apex, Wild>>, <<Www, Wild>>}

Symmetry == Permutations(Ids)
=============================================================================
