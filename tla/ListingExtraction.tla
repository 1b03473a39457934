--------------------------- MODULE ListingExtraction ---------------------------
(***************************************************************************)
(* POST /listings/extract: one listing, fetched and read (ListingService). *)
(* HasData is asked if a key is configured.  Otherwise the page is fetched *)
(* over HTTP, redirect by redirect, and a second time in a browser if it   *)
(* was an empty application shell or gave too little.  The sites may       *)
(* answer anything, or nothing until a timer fires.                        *)
(***************************************************************************)
EXTENDS ListingSources

CONSTANTS
  Listings,       \* what a page may hold
  Payloads,       \* what HasData may answer
  MaxRedirects    \* FetcherConfig.max_redirects

ASSUME RedirectsAreBounded == MaxRedirects \in Nat

VARIABLE job

(***************************************************************************)
(* pc         the call that is awaited                                     *)
(* provider   the adapter that was detected                                *)
(* redirects  those followed so far                                        *)
(* read       the listing last read from a page, and with what             *)
(* result     what the adapter made of it                                  *)
(* error      the code and whether the client may try again                *)
(***************************************************************************)
Idle == [pc |-> "idle", provider |-> None, redirects |-> 0, read |-> None,
         result |-> None, error |-> None]

ListingInit == job = Idle

Error(code, retryable) == [code |-> code, retryable |-> retryable]

Fails(code, retryable) == job' = [job EXCEPT !.pc = "failed", !.error = Error(code, retryable)]

\* validate_listing_url, detect_provider and is_configured, before anything is awaited.
Submit ==
  /\ job.pc = "idle"
  /\ \/ Fails("invalid_url", FALSE)
     \/ Fails("unsupported_provider", FALSE)
     \/ \E provider \in Providers, pc \in {"hasdata", "http"} :
          job' = [job EXCEPT !.pc = pc, !.provider = provider]

-----------------------------------------------------------------------------
(* HasData. A failure ends the extraction: the page is not fetched instead. *)

HasDataAnswers ==
  /\ job.pc = "hasdata"
  /\ \E payload \in Payloads :
       job' = [job EXCEPT !.pc = "done", !.result = ExtractPayload(job.provider, payload)]

\* Time-outs, transport errors, 429 and 5xx may be tried again; 401, 402 and other 4xx not.
HasDataFails ==
  /\ job.pc = "hasdata"
  /\ \/ \E retryable \in BOOLEAN : Fails("fetch_failure", retryable)
     \/ Fails("parsing_failure", FALSE)

-----------------------------------------------------------------------------
(* The page. *)

Fetching == job.pc \in {"http", "browser"}

\* The redirect beyond the limit is followed.
OneRedirectMore ==
  /\ job.pc = "http"
  /\ IF job.redirects > MaxRedirects
     THEN Fails("fetch_failure", FALSE)
     ELSE job' = [job EXCEPT !.redirects = @ + 1]

\* Of a redirect over HTTP: the limit, the location, and its validity are looked at in this order.
Redirect ==
  /\ job.pc = "http"
  /\ IF job.redirects >= MaxRedirects
     THEN Fails("fetch_failure", FALSE)
     ELSE \/ Fails("fetch_failure", FALSE)
          \/ Fails("invalid_url", FALSE)
          \/ job' = [job EXCEPT !.redirects = @ + 1]

\* validate_resolved_addresses, before every hop and of the page the browser ends on.
Unresolved == Fetching /\ Fails("invalid_url", FALSE)

\* A time-out or a transport error; in the browser, a navigation that fails.
CallFails == Fetching /\ Fails("fetch_failure", TRUE)

\* _read_response_body, _raise_for_problem_response and _raise_for_blocked_page.
Refusals ==
  {Error("fetch_failure", FALSE), Error("fetch_failure", TRUE), Error("listing_not_found", FALSE),
   Error("captcha_detected", FALSE), Error("access_blocked", FALSE)}

PageRefused ==
  /\ Fetching
  /\ \E e \in Refusals : Fails(e.code, e.retryable)

\* An empty shell sends an HTTP fetch to the browser; from the browser it is final.
ShellFound ==
  \/ job.pc = "http" /\ job' = [job EXCEPT !.pc = "browser"]
  \/ job.pc = "browser" /\ Fails("static_content_insufficient", FALSE)

ShouldUseBrowser(result) == result.method = "visible_html" \/ result.insufficient

\* A page that gives too little is fetched again, whoever fetched it.
ReadUntilSufficient ==
  /\ Fetching
  /\ \E listing \in Listings :
       LET result == Extract(job.provider, listing)
       IN  job' = [job EXCEPT !.pc = IF ShouldUseBrowser(result) THEN "browser" ELSE "done",
                              !.read = [listing |-> listing, with |-> job.pc],
                              !.result = result]

\* The adapter reads the page; what it made of an earlier one is replaced.
ListingRead ==
  /\ Fetching
  /\ \E listing \in Listings :
       LET result == Extract(job.provider, listing)
           again == job.pc = "http" /\ ShouldUseBrowser(result)
       IN  job' = [job EXCEPT !.pc = IF again THEN "browser" ELSE "done",
                              !.read = [listing |-> listing, with |-> job.pc],
                              !.result = result]

ListingStep ==
  \/ Submit \/ HasDataAnswers \/ HasDataFails
  \/ Redirect \/ Unresolved \/ CallFails \/ PageRefused \/ ShellFound \/ ListingRead

\* The answer leaves, and with it everything the server knew of the request.
Answered == job.pc \in {"done", "failed"}

\* Calls end: httpx and Playwright have time-outs.
ListingFairness == WF_job(job.pc # "idle" /\ ListingStep)

===============================================================================
