----------------------------- MODULE MCFetcher -----------------------------
(***************************************************************************)
(* Two readers and a host that answers under two schemes, so that two      *)
(* origins share its turns and not its rules.                              *)
(***************************************************************************)
EXTENDS Fetcher, TLC

CONSTANTS http, https, museum

MCHostOf == [o \in Origins |-> museum]

MCPaths == {<<>>, <<"shows">>}

Agent(name) == [field |-> "agent", value |-> name]
Allow(path) == [field |-> "allow", value |-> path]
Disallow(path) == [field |-> "disallow", value |-> path]

File(html, lines) == [html |-> html, lines |-> lines]

\* A file with a group for another crawler on either side of the one for any,
\* whose rules have two lengths; and one served as plain text.  None names
\* two crawlers in one group.
MCFiles ==
    {File(TRUE, <<Agent("other"), Disallow(<<>>),
                  Agent("*"), Allow(<<>>), Disallow(<<"shows">>),
                  Agent("another"), Allow(<<"shows">>)>>),
     File(FALSE, <<Agent("*"), Disallow(<<"shows">>)>>)}

MCSymmetry == Permutations(Readers) \union Permutations(Origins)
=============================================================================
