------------------------------- MODULE MCSolo -------------------------------
(***************************************************************************)
(* Solo, small: a page that the site serves, has a browser make, or        *)
(* refuses, and two runs of most kinds.                                    *)
(***************************************************************************)
EXTENDS Solo, TLC

CONSTANTS s1, s2, x1, v1, c1, c2, n1, n2, page, shell, wall, binary, challenge

\* The runs over the configuration touch nothing that the others do, and a job only
\* the key file.
MCTogether == {{s1, s2, v1}, {s1, x1}, {s2, x1}, {c1, c2, n1, n2}}

Html(status_code, content, final_url) ==
    [status_code |-> status_code, content |-> content, content_type |-> "text/html",
     final_url |-> final_url]

MCAnswers == {Failed, Html(200, page, Url), Html(200, shell, Url), Html(404, page, Url),
              Html(200, wall, Url)}
MCPages == {Failed, NotInstalled, Html(200, binary, Url), Html(200, page, challenge)}

Symmetry == Permutations({s1, s2}) \union Permutations({c1, c2})
            \union Permutations({n1, n2})
=============================================================================
