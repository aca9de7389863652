-------------------------- MODULE MCUserDictionary --------------------------
(***************************************************************************)
(* Two instances of a context, two phrases of which the addon libraries    *)
(* have the first, two slots in each library.                              *)
(***************************************************************************)
EXTENDS UserDictionary, TLC

CONSTANTS i1, i2, p, q, k, l, a

MCInstance == {i1, i2}
MCPhrase == {p, q}
MCPinyin == {k, l}
(* Only p has two pronunciations, and only p is imported into both.        *)
MCImports ==
    {<<"user", p, k>>, <<"user", p, l>>, <<"user", q, k>>, <<"addon", p, k>>}

(* An input with a fuzzy key pronounces p both ways.                       *)
MCRemembered == {<<p, {k, l}>>}

MCAddon == a :> [phrase |-> p, prons |-> {k}]

(* One library, one token.                                                 *)
MCMasks == {{t \in Token : t[1] = "addon"}, {<<"user", 1>>}}

Interchangeable == Permutations(MCInstance)
=============================================================================
