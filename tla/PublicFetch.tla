----------------------------- MODULE PublicFetch -----------------------------
(***************************************************************************)
(* The text of a public page: fetchPublicText of server/src/ingest/        *)
(* safe-fetcher.ts, which postings, research and the preview of an address *)
(* (routes/preview.ts) call.                                               *)
(*                                                                         *)
(* A fetch follows redirects.  For each address it resolves the host,      *)
(* accepts the answer only if every address in it is safe, and connects to *)
(* the first of them; so the host is not looked up again in between, where *)
(* it might resolve to something else.  One timer runs from the start; it  *)
(* aborts a request and its body, but not a lookup.                        *)
(***************************************************************************)
EXTENDS Naturals, Sequences, SequencesExt

CONSTANTS
  Urls,          \* addresses of pages, each with a host of its own
  Forbidden,     \* those normalizeUrl raises on
  Addresses,     \* what hosts resolve to
  Unsafe,        \* those unsafeAddress refuses (address-policy.ts)
  MaxRedirects,  \* limits.fetchRedirects
  MaxBytes       \* limits.fetchBytes, in chunks of one unit

ASSUME PublicFetchAssumption ==
  /\ Forbidden \subseteq Urls /\ Unsafe \subseteq Addresses
  /\ MaxRedirects \in Nat /\ MaxBytes \in Nat

VARIABLES
  fetch,   \* where the fetch is: step, address of the page, redirects, bytes
  clock,   \* its timer
  pinned,  \* the address to connect to, and the host it was resolved for
  trail,   \* history: the connections made
  text     \* what fetchPublicText returned or raised

fetchVars == <<fetch, clock, pinned, trail, text>>

Nothing == [code |-> "none", url |-> "none"]
NoPin == [address |-> "none", host |-> "none", answer |-> {}]

FetchInit ==
  /\ \E u \in Urls : fetch = [pc |-> "new", url |-> u, redirects |-> 0, bytes |-> 0]
  /\ clock = "armed"
  /\ pinned = NoPin /\ trail = <<>> /\ text = Nothing

\* The finally block clears the timer.
SettleFetch(code, url) ==
  /\ fetch' = [fetch EXCEPT !.pc = "done"]
  /\ text' = [code |-> code, url |-> url]
  /\ clock' = IF clock = "armed" THEN "cleared" ELSE clock

Refuse(code) == SettleFetch(code, "none")

\* Anything else that is raised.
Broken == Refuse(IF clock = "fired" THEN "FETCH_TIMEOUT" ELSE "FETCH_FAILED")
-----------------------------------------------------------------------------
\* normalizeUrl, of the address given or of a redirect's.
GoTo(u, redirects) ==
  IF u \in Forbidden THEN Refuse("URL_NOT_ALLOWED")
  ELSE /\ fetch' = [pc |-> "resolving", url |-> u, redirects |-> redirects, bytes |-> 0]
       /\ UNCHANGED <<clock, text>>

FetchBegins ==
  /\ fetch.pc = "new"
  /\ GoTo(fetch.url, 0)
  /\ UNCHANGED <<pinned, trail>>

\* addressFor.
Resolves(answer) ==
  /\ fetch.pc = "resolving"
  /\ IF answer = <<>> \/ ToSet(answer) \cap Unsafe # {}
     THEN Refuse("UNSAFE_ADDRESS") /\ UNCHANGED pinned
     ELSE /\ fetch' = [fetch EXCEPT !.pc = "requesting"]
          /\ pinned' = [address |-> answer[1], host |-> fetch.url, answer |-> ToSet(answer)]
          /\ UNCHANGED <<clock, text>>
  /\ UNCHANGED trail

LookupFails ==
  /\ fetch.pc = "resolving"
  /\ Refuse("FETCH_FAILED")
  /\ UNCHANGED <<pinned, trail>>

\* The connection is made, or refused, and no answer comes.
Connect ==
  trail' = Append(trail, [url |-> fetch.url, address |-> pinned.address,
                          host |-> pinned.host, answer |-> pinned.answer])

RequestFails ==
  /\ fetch.pc = "requesting"
  /\ Broken
  /\ Connect
  /\ UNCHANGED pinned

\* Mutant: a redirect is followed with the address at hand.
Redirect_Pinned(u) ==
  IF fetch.redirects >= MaxRedirects THEN Refuse("REDIRECT_LIMIT")
  ELSE IF u \in Forbidden THEN Refuse("URL_NOT_ALLOWED")
  ELSE /\ fetch' = [fetch EXCEPT !.url = u, !.redirects = @ + 1]
       /\ UNCHANGED <<clock, text>>

Redirect(u) ==
  IF fetch.redirects >= MaxRedirects THEN Refuse("REDIRECT_LIMIT")
  ELSE GoTo(u, fetch.redirects + 1)

Redirected(u) ==
  /\ fetch.pc = "requesting"
  /\ Redirect(u)
  /\ Connect
  /\ UNCHANGED pinned

\* A redirect that says nowhere, or whose location is no address.
RedirectedNowhere(missing) ==
  /\ fetch.pc = "requesting"
  /\ IF fetch.redirects >= MaxRedirects THEN Refuse("REDIRECT_LIMIT")
     ELSE IF missing THEN Refuse("FETCH_FAILED") ELSE Broken
  /\ Connect
  /\ UNCHANGED pinned

\* A status, a type or a declared length that is not accepted.
Unwanted(code) ==
  /\ fetch.pc = "requesting"
  /\ Refuse(code)
  /\ Connect
  /\ UNCHANGED pinned

Responds ==
  /\ fetch.pc = "requesting"
  /\ fetch' = [fetch EXCEPT !.pc = "reading"]
  /\ Connect
  /\ UNCHANGED <<clock, pinned, text>>

\* bodyText: the declared length is not relied on.
Chunk ==
  /\ fetch.pc = "reading"
  /\ IF fetch.bytes + 1 > MaxBytes THEN Refuse("FETCH_TOO_LARGE")
     ELSE fetch' = [fetch EXCEPT !.bytes = @ + 1] /\ UNCHANGED <<clock, text>>
  /\ UNCHANGED <<pinned, trail>>

\* The body is not UTF-8, or no text is left of it.
Unreadable ==
  /\ fetch.pc = "reading"
  /\ Refuse("FETCH_FAILED")
  /\ UNCHANGED <<pinned, trail>>

BodyBreaks ==
  /\ fetch.pc = "reading"
  /\ Broken
  /\ UNCHANGED <<pinned, trail>>

Read ==
  /\ fetch.pc = "reading" /\ fetch.bytes > 0
  /\ SettleFetch("ok", fetch.url)
  /\ UNCHANGED <<pinned, trail>>

FetchTimeout ==
  /\ clock = "armed"
  /\ clock' = "fired"
  /\ UNCHANGED <<fetch, pinned, trail, text>>

LookupAnswers == UNION {[1 .. n -> Addresses] : n \in 0 .. 2}

FetchNext ==
  \/ FetchBegins \/ LookupFails \/ RequestFails \/ Responds
  \/ \E answer \in LookupAnswers : Resolves(answer)
  \/ \E u \in Urls : Redirected(u)
  \/ \E missing \in BOOLEAN : RedirectedNowhere(missing)
  \/ \E code \in {"FETCH_FAILED", "CONTENT_TYPE_NOT_ALLOWED", "FETCH_TOO_LARGE"} : Unwanted(code)
  \/ Chunk \/ Unreadable \/ BodyBreaks \/ Read \/ FetchTimeout

FetchSpec == FetchInit /\ [][FetchNext]_fetchVars
-----------------------------------------------------------------------------
\* Through any number of redirects, every connection goes to an address that
\* was resolved for that very host in an answer without an unsafe one, and no
\* page is asked for that normalizeUrl refuses; there are no more of them than
\* the limit allows.  A text is of the page last asked for and within the limit
\* of bytes; only a fetch whose timer fired is said to have timed out; and no
\* timer outlives its fetch.
FetchSound ==
  /\ \A i \in DOMAIN trail :
       /\ trail[i].host = trail[i].url /\ trail[i].url \notin Forbidden
       /\ trail[i].address \in trail[i].answer /\ trail[i].answer \cap Unsafe = {}
  /\ Len(trail) <= MaxRedirects + 1
  /\ text.code = "ok" => text.url = Last(trail).url /\ fetch.bytes <= MaxBytes
  /\ text.code = "FETCH_TIMEOUT" => clock = "fired"
  /\ fetch.pc = "done" => clock # "armed"
=============================================================================
