---------------------------- MODULE ClientChanges ----------------------------
(***************************************************************************)
(* The changes the pages of one browser send:                              *)
(* server/src/security/local-security.ts, and csrf() of the client's views. *)
(*                                                                         *)
(* Before every change a page fetches a token; the answer also sets the    *)
(* browser's one cookie to that token, signed.  Then the change carries    *)
(* the token in a header and whatever cookie there is.  The pages and the  *)
(* tabs share the cookie and know nothing of each other, and a server that *)
(* starts again signs with another secret.                                 *)
(***************************************************************************)
EXTENDS Naturals, FiniteSets

CONSTANTS
  Changes,  \* what pages are changing at the same time
  Tokens,   \* tokens; a random one is one that is nowhere in use
  NoToken

ASSUME ClientChangesAssumption ==
  /\ NoToken \notin Tokens
  /\ IsFiniteSet(Changes) /\ IsFiniteSet(Tokens) /\ Cardinality(Tokens) > 2 * Cardinality(Changes) + 1

VARIABLES
  cookie,   \* the token in the browser's cookie
  signed,   \* tokens signed with the server's present secret
  change,   \* each change: its stage, its token, the cookie it was sent with
  overtaken \* changes whose token was replaced or outlived its secret

changeVars == <<cookie, signed, change, overtaken>>

NoChange == [stage |-> "none", token |-> NoToken, cookie |-> NoToken]

ChangesInit ==
  /\ cookie = NoToken /\ signed = {} /\ overtaken = {}
  /\ change = [c \in Changes |-> NoChange]

InUse == {cookie} \cup {change[c].token : c \in Changes} \cup {change[c].cookie : c \in Changes}

\* issue: the answer is on its way, with the token in its cookie and its body.
IssueToken(c) ==
  /\ change[c].stage \in {"none", "applied", "refused"}
  /\ \E t \in Tokens \ InUse :
       /\ signed' = signed \cup {t}
       /\ change' = [change EXCEPT ![c] = [NoChange EXCEPT !.stage = "issued", !.token = t]]
  /\ overtaken' = overtaken \ {c}
  /\ UNCHANGED cookie

\* Mutant: the cookie of a page that has one is left alone.
CookieAfter_Kept(t) == IF cookie = NoToken THEN t ELSE cookie

CookieAfter(t) == t

\* The browser gets the answer, in whatever order.
TokenArrives(c) ==
  /\ change[c].stage = "issued"
  /\ cookie' = CookieAfter(change[c].token)
  /\ change' = [change EXCEPT ![c].stage = "held"]
  /\ overtaken' = overtaken \cup {d \in Changes : change[d].stage = "held"}
  /\ UNCHANGED signed

SubmitChange(c) ==
  /\ change[c].stage = "held"
  /\ change' = [change EXCEPT ![c].stage = "sent", ![c].cookie = cookie]
  /\ UNCHANGED <<cookie, signed, overtaken>>

\* Mutant: the signature is not looked at.
IsValid_Unsigned(sentCookie, header) == sentCookie = header

\* isValid: the cookie is the header, signed.
IsValid(sentCookie, header) == sentCookie = header /\ header \in signed

\* localSecurityMiddleware, before any handler; a page of this origin passes
\* what it asks before.
ChangeArrives(c) ==
  /\ change[c].stage = "sent"
  /\ change' = [change EXCEPT ![c].stage =
                  IF IsValid(change[c].cookie, change[c].token) THEN "applied" ELSE "refused"]
  /\ UNCHANGED <<cookie, signed, overtaken>>

\* A new process, and a new random secret; what is on its way arrives there.
ServerRestarts ==
  /\ signed' = {}
  /\ overtaken' = overtaken \cup {c \in Changes : change[c].stage \in {"issued", "held", "sent"}}
  /\ UNCHANGED <<cookie, change>>

ChangesNext ==
  \/ \E c \in Changes : IssueToken(c) \/ TokenArrives(c) \/ SubmitChange(c) \/ ChangeArrives(c)
  \/ ServerRestarts
-----------------------------------------------------------------------------
\* A change is refused exactly when it was overtaken: another token came into
\* the browser between its own and its sending, or the server started again
\* between its token and its arrival.  A page that changes one thing at a time,
\* alone in its browser, is never refused by a server that stays up; and what
\* is refused has changed nothing, so it may be sent again.
RefusedIfOvertaken ==
  \A c \in Changes : /\ change[c].stage = "refused" => c \in overtaken
                     /\ change[c].stage = "applied" => c \notin overtaken
=============================================================================
