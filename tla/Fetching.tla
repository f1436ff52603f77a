------------------------------ MODULE Fetching ------------------------------
(***************************************************************************)
(* inverba/fetch.py, backends.py and blockcheck.py: how an answer, or the  *)
(* lack of one, becomes a FetchResult, and whether that looks like a page. *)
(*                                                                         *)
(* What a site, a browser or a service answers is an argument. Bodies are  *)
(* model values; what the patterns find in them are sets of bodies. Of a   *)
(* FetchResult, its method and headers are left out: nothing signs them.   *)
(***************************************************************************)
EXTENDS Integers

CONSTANTS
    Empty,            \* the empty body
    Shells,           \* bodies that _looks_like_js_shell recognises
    Walls,            \* bodies with a challenge marker
    ChallengeUrls,    \* URLs with a challenge path
    Failed,           \* no answer: an exception took its place
    NotInstalled      \* no page: playwright is not there

NATIVE == "native"

FetchResult(url, final_url, status_code, content, content_type, error, fetched_at, fetched_by) ==
    [url |-> url, final_url |-> final_url, status_code |-> status_code, content |-> content,
     content_type |-> content_type, error |-> error, fetched_at |-> fetched_at,
     fetched_by |-> fetched_by]

\* A result that says why there is none.
NoResult(url, status_code, at, by) ==
    FetchResult(url, url, status_code, Empty, "", TRUE, at, by)

\* FetchResult.ok
Ok(fetched) == ~fetched.error /\ fetched.status_code \in 200..299

\* _fetch_http: an answer, or Failed for an httpx.HTTPError.
FetchHttp(url, answer, at) ==
    IF answer = Failed THEN NoResult(url, 0, at, NATIVE)
    ELSE FetchResult(url, answer.final_url, answer.status_code, answer.content,
                     answer.content_type, FALSE, at, NATIVE)

\* _fetch_browser, with playwright installed: a rendered page, without status when
\* goto gave no response, or Failed for any exception, a missing binary's included.
FetchBrowser(url, page, at) ==
    IF page = Failed THEN NoResult(url, 0, at, NATIVE)
    ELSE FetchResult(url, page.final_url, page.status_code, page.content,
                     "text/html", FALSE, at, NATIVE)

\* FetchEngine.fetch: an HTML answer that looks like a shell is rendered, if
\* playwright is installed; then only the browser's result counts.
Fetch(url, answer, page, at) ==
    LET result == FetchHttp(url, answer, at)
    IN  IF /\ Ok(result)
           /\ result.content_type = "text/html"
           /\ result.content \in Shells
           /\ page # NotInstalled
        THEN FetchBrowser(url, page, at)
        ELSE result

\* NativeBackend.fetch
NativeFetch(url, answer, page, at) == [Fetch(url, answer, page, at) EXCEPT !.fetched_by = NATIVE]

\* FirecrawlBackend.fetch, dated before the request: the service's answer has a status
\* of its own and, with 200, the page.
FirecrawlFetch(url, answer, started) ==
    IF answer = Failed THEN NoResult(url, 0, started, "firecrawl")
    ELSE IF answer.api_status # 200
    THEN NoResult(url, answer.api_status, started, "firecrawl")
    ELSE FetchResult(url, answer.final_url, answer.status_code, answer.content,
                     answer.content_type, FALSE, started, "firecrawl")

\* Deliberately wrong: a caller's own function may call itself native.
BugMayWrap(name) == TRUE

\* CallableBackend.__init__ refuses the native attribution.
MayWrap(name) == name # NATIVE

\* CallableBackend.fetch: any exception of the caller's function is Failed.
CallableFetch(name, url, answer, started) ==
    IF answer = Failed THEN NoResult(url, 0, started, name)
    ELSE FetchResult(url, url, answer.status_code, answer.content, answer.content_type,
                     FALSE, started, name)

-----------------------------------------------------------------------------
(* blockcheck.py. Every signal but the small body is a strong one, and that counts *)
(* beside another signal only: so there is a verdict, and how sure it is is left out. *)

\* detect_block
DetectBlock(content, status_code, url, final_url) ==
    IF status_code \notin 200..299 THEN "hard_block"
    ELSE IF \/ final_url \notin {"", url} /\ final_url \in ChallengeUrls
            \/ content \in Walls
    THEN "suspected_block" ELSE "clean"

\* check_record_for_block: by the record alone when content is Empty.
CheckRecordForBlock(record, content) ==
    DetectBlock(content, record.status_code, record.url, record.final_url)
=============================================================================
