------------------------------ MODULE MCCustody ------------------------------
(***************************************************************************)
(* Custody, small: two URLs, one of which redirects to the other, two      *)
(* bodies, an answer of a service about itself, and every kind of backend, *)
(* one of them a caller's function that would like to be native.           *)
(***************************************************************************)
EXTENDS Custody

CONSTANTS u1, u2, page1, page2

Answer(api_status, status_code, content, final_url) ==
    [api_status |-> api_status, status_code |-> status_code, content |-> content,
     content_type |-> "text/html", final_url |-> final_url]

MCAnswers == {Failed, Raised, Answer(200, 200, page1, u2), Answer(200, 200, page2, u1),
              Answer(500, 404, page1, u1)}

MCBackends == {[kind |-> "native", name |-> NATIVE], [kind |-> "firecrawl", name |-> "firecrawl"],
               [kind |-> "callable", name |-> NATIVE], [kind |-> "callable", name |-> "crawl4ai"]}

MCPlans == {[urls |-> <<u1, u2>>, uses |-> {"anchor"}],
            [urls |-> <<u1, u2>>, uses |-> {"store"}],
            [urls |-> <<u1>>, uses |-> {"notarise", "export"}],
            [urls |-> <<u1>>, uses |-> {"notarise", "store"}]}

\* A fetcher's clock is slow or fast, and may be corrected between two readings.
MCDrift == {-1, 1}
=============================================================================
