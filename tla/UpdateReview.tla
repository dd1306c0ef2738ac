----------------------------- MODULE UpdateReview -----------------------------
(***************************************************************************)
(* The life of updates between enumerators, who submit them, and managers, *)
(* who approve or return them, and the e-mails and request tokens by which *)
(* enumerators are reached (rest/views/indicator_period_data.py,           *)
(* rest/views/project_enumerators.py).                                     *)
(*                                                                         *)
(* A PATCH reads an update and later saves the whole row; a saved row that *)
(* is returned ("R") is mailed about, each time; an approval saves the     *)
(* period's other updates again.  A mail with a link first reads the       *)
(* user's token, changes it in memory and writes it back.  Workers do this *)
(* concurrently.                                                           *)
(*                                                                         *)
(* A POST is one transaction (rest/viewsets.py), with the recalculation    *)
(* and the mails in it: until it commits, the others see the rows and the  *)
(* tokens it wrote as they were, and wait to write them themselves; if it  *)
(* fails, all it wrote is taken back, but for the mails.  Other requests   *)
(* are not transactions.                                                   *)
(*                                                                         *)
(* A project has one indicator with one period here, and users may do what *)
(* they ask for.  The periods of ancestors, whose updates an approval      *)
(* saves too, are left out, and so are expiry dates, locked periods and    *)
(* the activation of users.                                                *)
(***************************************************************************)
EXTENDS Naturals, Sequences, FiniteSets

CONSTANTS
    Project,
    User,
    Manager,        \* the users who see all updates but drafts
    Update,         \* the rows IndicatorPeriodData may hold
    ProjectOf,      \* the project of an update
    Worker,
    None,
    MaxRequests,    \* bound: requests
    MaxKills        \* bound: killed requests, mails that raise

Enumerator == User \ Manager
Status == {"D", "P", "R", "A"}      \* draft, pending, returned, approved

\* An update as a worker holds it in memory; "whole": all of it will be saved.
Row == [update : Update, status : Status, author : User, whole : BOOLEAN]

\* A mail to be sent: about an assignment, or about an update that is returned.
Letter == [user : User, project : Project, update : Update \cup {None}, preview : BOOLEAN]

\* A letter that is being sent, with the user's token as it was read: its place
\* (0: none), and max_uses and the data as they will be written.
Hand == [letter : Letter, token : Nat, written : BOOLEAN, uses : Nat,
         sent : SUBSET Project]

\* A RequestToken: uses (in JWT_MAX_USE) and the projects with a date_sent.  A key
\* that was taken in a transaction and is not committed has no user.
Token == [user : User \cup {None}, uses : Nat, sent : SUBSET Project]

\* What is committed of a row or a token a POST has written, and whose POST it is.
HeldRow == [by : Worker, status : Status \cup {None}, author : User \cup {None}]
HeldToken == [by : Worker, user : User \cup {None}, uses : Nat, sent : SUBSET Project]

ASSUME ReviewAssumption ==
    /\ Manager \subseteq User
    /\ None \notin User \cup Update \cup Status
    /\ None \notin Hand /\ None \notin HeldRow /\ None \notin HeldToken
    /\ ProjectOf \in [Update -> Project]
    /\ IsFiniteSet(Worker)
    /\ MaxRequests \in Nat /\ MaxKills \in Nat

VARIABLES
    status, author,     \* columns of the updates; None: there is no such row
    assigned,           \* <<user, project>>: enumerators of the indicators
    tokens,             \* the rows of RequestToken, by primary key
    heldRows, heldTokens,   \* the rows and tokens written in POSTs that go on
    work,               \* what each worker is at
    requests, kills,
    mailed,             \* history: <<user, project>>: a link was mailed
    letters,            \* history: how many links were mailed to each user
    told,               \* history: <<update, user>>: mailed since it was returned
    untold,             \* history: updates returned by a path that mails nobody
    unmailed,           \* history: <<user, project>> of mails that did not go out
    overlapped,         \* history: users for whom two changes of the token overlapped
    undone              \* history: users whose token was taken back with a POST

rows == <<status, author, heldRows>>
issued == <<tokens, heldTokens>>
history == <<mailed, letters, told, untold, unmailed, overlapped, undone>>
vars == <<rows, assigned, issued, work, requests, kills, history>>

\* What is committed of an update, and what a worker sees of it.
Latest(u) == [status |-> status[u], author |-> author[u]]
Committed(u) == IF heldRows[u] = None THEN Latest(u) ELSE heldRows[u]
Seen(w, u) ==
    IF heldRows[u] # None /\ heldRows[u].by = w THEN Latest(u) ELSE Committed(u)

\* An update may be written unless it waits for another worker's POST.
Free(w, u) == heldRows[u] # None => heldRows[u].by = w

RowOf(w, u) == [update |-> u, status |-> Seen(w, u).status, author |-> Seen(w, u).author,
                whole |-> TRUE]

\* A worker holds rows to save, the project whose period it recalculates, letters
\* to send, and the letter at hand; "post": its request is a POST.
Phase == {"idle", "request", "recalculate", "approved", "others"}
Work == [phase : Phase, at : Project \cup {None}, rows : SUBSET Row,
         letters : SUBSET Letter, hand : Hand \cup {None}, post : BOOLEAN]
NoWork == [phase |-> "idle", at |-> None, rows |-> {}, letters |-> {}, hand |-> None,
           post |-> FALSE]

Saving(w, phase) ==
    work[w].phase = phase /\ work[w].letters = {} /\ work[w].hand = None
Idle(w) == Saving(w, "idle") /\ ~work[w].post

TypeOK ==
    /\ status \in [Update -> Status \cup {None}]
    /\ author \in [Update -> User \cup {None}]
    /\ \A u \in Update : (status[u] = None) = (author[u] = None)
    /\ assigned \subseteq User \X Project
    /\ tokens \in Seq(Token)
    /\ heldRows \in [Update -> HeldRow \cup {None}]
    /\ \A u \in Update : heldRows[u] # None =>
          (heldRows[u].status = None) = (heldRows[u].author = None)
    /\ heldTokens \in Seq(HeldToken \cup {None}) /\ Len(heldTokens) = Len(tokens)
    /\ letters \in [User -> Nat]
    /\ work \in [Worker -> Work]
    /\ \A w \in Worker :
          /\ work[w].hand # None => work[w].hand.token \in 0 .. Len(tokens)
          \* Only whole rows are saved again by a recalculation.
          /\ work[w].phase \in {"approved", "others"} =>
                \A r \in work[w].rows :
                    r.whole /\ (r.status = "A") = (work[w].phase = "approved")
    /\ requests \in 0 .. MaxRequests /\ kills \in 0 .. MaxKills

Init ==
    /\ status = [u \in Update |-> None]
    /\ author = [u \in Update |-> None]
    /\ assigned = {}
    /\ tokens = <<>> /\ heldTokens = <<>>
    /\ heldRows = [u \in Update |-> None]
    /\ work = [w \in Worker |-> NoWork]
    /\ requests = 0 /\ kills = 0
    /\ mailed = {} /\ told = {} /\ untold = {} /\ unmailed = {} /\ overlapped = {}
    /\ undone = {}
    /\ letters = [x \in User |-> 0]

-----------------------------------------------------------------------------
(* Requests on updates.                                                      *)
Accept(w) ==
    /\ Idle(w)
    /\ requests < MaxRequests
    /\ requests' = requests + 1

\* get_user_viewable_updates.
Visible(w, x, u) ==
    /\ Seen(w, u).status # None
    /\ \/ Seen(w, u).status = "A"
       \/ Seen(w, u).author = x
       \/ x \in Manager /\ Seen(w, u).status # "D"

InHand(u) == \E w \in Worker : \E r \in work[w].rows : r.update = u

\* Once a row is saved: the mail about one that is returned; in a request of its
\* own, the recalculation of the period of one that is approved.
ReturnLetters(r) ==
    IF r.status = "R"
    THEN {[user |-> r.author, project |-> ProjectOf[r.update], update |-> r.update,
           preview |-> FALSE]}
    ELSE {}
Afterwards(u, s) ==
    IF s = "A" THEN [NoWork EXCEPT !.phase = "recalculate", !.at = ProjectOf[u]]
    ELSE NoWork

\* An update that is returned anew: no one was told of that yet.
NowReturned(u) == {t \in told : t[1] # u}

\* POST of an update, in a transaction that Commit ends.
CreateUpdate(w, x, u, s) ==
    /\ Accept(w)
    /\ status[u] = None /\ heldRows[u] = None /\ ~InHand(u)
    /\ status' = [status EXCEPT ![u] = s]
    /\ author' = [author EXCEPT ![u] = x]
    /\ heldRows' = [heldRows EXCEPT ![u] = [by |-> w, status |-> None, author |-> None]]
    /\ told' = IF s = "R" THEN NowReturned(u) ELSE told
    /\ work' = [work EXCEPT ![w] =
           [Afterwards(u, s) EXCEPT
               !.post = TRUE,
               !.letters = ReturnLetters([update |-> u, status |-> s, author |-> x])]]
    /\ UNCHANGED <<assigned, issued, kills, mailed, letters, untold, unmailed, overlapped,
                   undone>>

\* perform_update: the author stays if the status is changed to returned or
\* approved; to ask for the status an update has is no change.
PatchedRow(w, x, u, asked) ==
    LET reviewed == asked \in {"R", "A"} /\ asked # Seen(w, u).status
    IN  [RowOf(w, u) EXCEPT !.status = IF asked = None THEN @ ELSE asked,
                            !.author = IF reviewed THEN @ ELSE x]

\* PATCH of an update: get_object; the row is saved by SaveRow.
OpenUpdate(w, x, u, asked) ==
    /\ Accept(w)
    /\ Visible(w, x, u)
    /\ work' = [work EXCEPT ![w].phase = "request", ![w].rows = {PatchedRow(w, x, u, asked)}]
    /\ UNCHANGED <<rows, assigned, issued, kills, history>>

\* period_update_files: the update of a deleted file is saved with the user only.
DeleteFile(w, x, u) ==
    /\ Accept(w)
    /\ Seen(w, u).status # None
    /\ work' = [work EXCEPT ![w].phase = "request",
                    ![w].rows = {[RowOf(w, u) EXCEPT !.author = x, !.whole = FALSE]}]
    /\ UNCHANGED <<rows, assigned, issued, kills, history>>

DeleteUpdate(w, x, u) ==
    /\ Accept(w)
    /\ heldRows[u] = None /\ Visible(w, x, u)
    /\ status' = [status EXCEPT ![u] = None]
    /\ author' = [author EXCEPT ![u] = None]
    /\ work' = [work EXCEPT ![w] = Afterwards(u, status[u])]
    /\ UNCHANGED <<heldRows, assigned, issued, kills, history>>

\* set_updates_status: queryset.update sends no signal.
SetUpdatesStatus(w, us, s) ==
    /\ Accept(w)
    /\ us # {} /\ \A u \in us : status[u] # None /\ heldRows[u] = None
    /\ \E p \in Project : \A u \in us : ProjectOf[u] = p
    /\ status' = [u \in Update |-> IF u \in us THEN s ELSE status[u]]
    /\ untold' = IF s = "R" THEN untold \cup us ELSE untold \ us
    /\ UNCHANGED <<author, heldRows, assigned, issued, work, kills, mailed, letters, told,
                   unmailed, overlapped, undone>>

-----------------------------------------------------------------------------
(* Saving rows.                                                              *)

\* IndicatorPeriodData.save of a row in memory, which is inserted again if it is
\* gone, and the signal about rows that are returned.
SaveWhole(w, r) ==
    /\ status' = [status EXCEPT ![r.update] = r.status]
    /\ author' = [author EXCEPT ![r.update] = r.author]
    /\ heldRows' = IF work[w].post /\ heldRows[r.update] = None
                     THEN [heldRows EXCEPT ![r.update] =
                              [by |-> w, status |-> status[r.update],
                               author |-> author[r.update]]]
                     ELSE heldRows
    /\ told' = IF r.status = "R" /\ Committed(r.update).status # "R"
                 THEN NowReturned(r.update) ELSE told
    /\ untold' = IF heldRows'[r.update] # None THEN untold ELSE untold \ {r.update}
    /\ work' = [work EXCEPT ![w] =
           IF work[w].phase = "request"
           THEN [Afterwards(r.update, r.status) EXCEPT !.letters = ReturnLetters(r)]
           ELSE [work[w] EXCEPT !.rows = work[w].rows \ {r},
                                !.letters = ReturnLetters(r)]]

\* Mutated form of SaveUser: the signal is not sent when some fields are saved only.
SaveUserQuietly(w, r) ==
    /\ heldRows[r.update] = None
    /\ author' = [author EXCEPT ![r.update] = r.author]
    /\ work' = [work EXCEPT ![w] = Afterwards(r.update, r.status)]
    /\ untold' = IF status[r.update] = "R" /\ r.status # "R"
                   THEN untold \cup {r.update} ELSE untold
    /\ UNCHANGED <<status, heldRows, told>>

\* save(update_fields=['user']): the signal goes by the status in memory.
SaveUser(w, r) ==
    /\ heldRows[r.update] = None
    /\ author' = [author EXCEPT ![r.update] = r.author]
    /\ work' = [work EXCEPT ![w] =
           [Afterwards(r.update, r.status) EXCEPT !.letters = ReturnLetters(r)]]
    /\ untold' = IF status[r.update] = "R" /\ r.status # "R"
                   THEN untold \cup {r.update} ELSE untold
    /\ UNCHANGED <<status, heldRows, told>>

SaveRow(w, r) ==
    /\ work[w].letters = {} /\ work[w].hand = None
    /\ r \in work[w].rows /\ Free(w, r.update)
    /\ IF r.whole THEN SaveWhole(w, r)
       ELSE IF status[r.update] # None THEN SaveUser(w, r)
       ELSE /\ work' = [work EXCEPT ![w] = NoWork]      \* DatabaseError
            /\ UNCHANGED <<rows, told, untold>>
    /\ UNCHANGED <<assigned, issued, requests, kills, mailed, letters, unmailed,
                   overlapped, undone>>

\* Mutated form of Period: the other updates are read with the approved ones.
PeriodUnfiltered(w, p, approved) ==
    {RowOf(w, u) : u \in {v \in Update : ProjectOf[v] = p /\ Seen(w, v).status # None}}

\* recalculate_period of the update's period: the approved updates are read and
\* saved again, then all others.
Period(w, p, approved) ==
    {RowOf(w, u) : u \in {v \in Update : /\ ProjectOf[v] = p
                                         /\ Seen(w, v).status # None
                                         /\ (Seen(w, v).status = "A") = approved}}

ReadApproved(w) ==
    /\ Saving(w, "recalculate")
    /\ work' = [work EXCEPT ![w].phase = "approved", ![w].rows = Period(w, work[w].at, TRUE)]
    /\ UNCHANGED <<rows, assigned, issued, requests, kills, history>>

ReadOthers(w) ==
    /\ Saving(w, "approved") /\ work[w].rows = {}
    /\ work' = [work EXCEPT ![w].phase = "others", ![w].rows = Period(w, work[w].at, FALSE)]
    /\ UNCHANGED <<rows, assigned, issued, requests, kills, history>>

EndRequest(w) ==
    /\ Saving(w, "others") /\ work[w].rows = {} /\ ~work[w].post
    /\ work' = [work EXCEPT ![w] = NoWork]
    /\ UNCHANGED <<rows, assigned, issued, requests, kills, history>>

HeldUpdates(w) == {u \in Update : heldRows[u] # None /\ heldRows[u].by = w}
HeldKeys(w) == {t \in DOMAIN tokens : heldTokens[t] # None /\ heldTokens[t].by = w}
Release(w) ==
    /\ heldRows' = [u \in Update |-> IF u \in HeldUpdates(w) THEN None ELSE heldRows[u]]
    /\ heldTokens' = [t \in DOMAIN tokens |-> IF t \in HeldKeys(w) THEN None ELSE heldTokens[t]]

\* The end of a POST.
Commit(w) ==
    /\ work[w].post
    /\ (Saving(w, "idle") \/ Saving(w, "others")) /\ work[w].rows = {}
    /\ work' = [work EXCEPT ![w] = NoWork]
    /\ Release(w)
    /\ untold' = untold \ HeldUpdates(w)
    /\ UNCHANGED <<status, author, assigned, tokens, requests, kills, mailed, letters, told,
                   unmailed, overlapped, undone>>

-----------------------------------------------------------------------------
(* Assignments and tokens.                                                   *)

\* project_enumerators.  (The links of one user are changed in one step here.)
AssignIndicators(w, p, enumerators) ==
    /\ Accept(w)
    /\ assigned' = {a \in assigned : a[2] # p} \cup (enumerators \X {p})
    /\ assigned' # assigned
    /\ UNCHANGED <<rows, issued, work, kills, history>>

\* assignment_send: some of those assigned are asked for, and have unlocked periods.
SendAssignments(w, p, xs, preview) ==
    /\ Accept(w)
    /\ xs # {} /\ xs \X {p} \subseteq assigned
    /\ work' = [work EXCEPT ![w].letters =
                   {[user |-> x, project |-> p, update |-> None, preview |-> preview] :
                       x \in xs}]
    /\ UNCHANGED <<rows, assigned, issued, kills, history>>

\* The tokens of a user, and those a worker sees, as they are or as committed.
TokensOf(x) == {t \in DOMAIN tokens : tokens[t].user = x}
SeenToken(w, t) ==
    IF heldTokens[t] = None \/ heldTokens[t].by = w THEN tokens[t] ELSE heldTokens[t]
SeenOf(w, x) == {t \in DOMAIN tokens : SeenToken(w, t).user = x}

\* .first() has the lowest primary key; _get_enumerators takes the last issued.
First(keys) == CHOOSE t \in keys : \A s \in keys : t <= s
Last(keys) == CHOOSE t \in keys : \A s \in keys : t >= s

HasLink(l) == l.update = None \/ <<l.user, l.project>> \in assigned

Told(l) == told' = IF l.update = None THEN told ELSE told \cup {<<l.update, l.user>>}

\* send_return_for_revision_email to a user who is not assigned.
MailWithoutLink(w, l) ==
    /\ work[w].hand = None /\ l \in work[w].letters
    /\ ~HasLink(l)
    /\ work' = [work EXCEPT ![w].letters = @ \ {l}]
    /\ Told(l)
    /\ UNCHANGED <<rows, assigned, issued, requests, kills, mailed, letters, untold,
                   unmailed, overlapped, undone>>

\* Whether writing the token at hand changes what a token says.
Changes(h) == h.token = 0 \/ ~h.letter.preview

\* The user's token as a worker reads it to send a letter.
HandOf(w, l) ==
    LET t == IF SeenOf(w, l.user) = {} THEN 0 ELSE First(SeenOf(w, l.user))
    IN  [letter |-> l, token |-> t, written |-> FALSE,
         uses |-> IF t = 0 THEN 0 ELSE SeenToken(w, t).uses,
         sent |-> IF t = 0 THEN {} ELSE SeenToken(w, t).sent]

\* _update_user_token reads the user's token; a change begun while another
\* worker's POST holds the user's token overlaps with that POST's.
ReadToken(w, l) ==
    /\ work[w].hand = None /\ l \in work[w].letters
    /\ HasLink(l)
    /\ work' = [work EXCEPT ![w].letters = @ \ {l}, ![w].hand = HandOf(w, l)]
    /\ overlapped' = IF /\ Changes(HandOf(w, l))
                        /\ \E v \in Worker \ {w} : HeldKeys(v) \cap TokensOf(l.user) # {}
                     THEN overlapped \cup {l.user} ELSE overlapped
    /\ UNCHANGED <<rows, assigned, issued, requests, kills, mailed, letters, told, untold,
                   unmailed, undone>>

\* Mutated forms of TokenAtHand: the token's data is replaced; a preview counts.
TokenAtHandReplaced(h) ==
    [user |-> h.letter.user,
     uses |-> IF h.letter.preview /\ h.token # 0 THEN h.uses ELSE h.uses + 1,
     sent |-> IF h.letter.preview THEN h.sent ELSE {h.letter.project}]

TokenAtHandOfPreview(h) ==
    [user |-> h.letter.user, uses |-> h.uses + 1, sent |-> h.sent \cup {h.letter.project}]

\* max_uses and data as changed in memory.
TokenAtHand(h) ==
    [user |-> h.letter.user,
     uses |-> IF h.letter.preview /\ h.token # 0 THEN h.uses ELSE h.uses + 1,
     sent |-> IF h.letter.preview THEN h.sent ELSE h.sent \cup {h.letter.project}]

IssueToken(w, token) ==
    /\ tokens' = Append(tokens, token)
    /\ heldTokens' = Append(heldTokens,
           IF work[w].post THEN [by |-> w, user |-> None, uses |-> 0, sent |-> {}] ELSE None)

SaveToken(w, t, token) ==
    /\ heldTokens[t] # None => heldTokens[t].by = w
    /\ tokens' = [tokens EXCEPT ![t] = token]
    /\ heldTokens' = IF work[w].post /\ heldTokens[t] = None
                       THEN [heldTokens EXCEPT ![t] =
                                [by |-> w, user |-> tokens[t].user, uses |-> tokens[t].uses,
                                 sent |-> tokens[t].sent]]
                       ELSE heldTokens

\* create_token, or save of max_uses and data; for a preview of neither.
WriteToken(w) ==
    LET h == work[w].hand
        others == {v \in Worker \ {w} :
                      /\ work[v].hand # None
                      /\ ~work[v].hand.written /\ Changes(work[v].hand)
                      /\ work[v].hand.letter.user = h.letter.user}
    IN  /\ h # None /\ ~h.written
        /\ IF ~Changes(h) THEN UNCHANGED issued
           ELSE IF h.token = 0 THEN IssueToken(w, TokenAtHand(h))
           ELSE SaveToken(w, h.token, TokenAtHand(h))
        /\ work' = [work EXCEPT ![w].hand.written = TRUE]
        /\ overlapped' = IF Changes(h) /\ others # {}
                           THEN overlapped \cup {h.letter.user} ELSE overlapped
        /\ UNCHANGED <<rows, assigned, requests, kills, mailed, letters, told, untold,
                       unmailed, undone>>

\* rsr_send_mail; a preview only answers with the link.
Mail(w) ==
    LET l == work[w].hand.letter
    IN  /\ work[w].hand # None /\ work[w].hand.written
        /\ work' = [work EXCEPT ![w].hand = None]
        /\ Told(l)
        /\ mailed' = IF l.preview THEN mailed ELSE mailed \cup {<<l.user, l.project>>}
        /\ letters' = IF l.preview THEN letters ELSE [letters EXCEPT ![l.user] = @ + 1]
        /\ UNCHANGED <<rows, assigned, issued, requests, kills, untold, unmailed,
                       overlapped, undone>>

\* The rows and tokens a POST has written are as they were, and what it has mailed
\* remains mailed.
Rollback(w) ==
    /\ status' = [u \in Update |-> IF u \in HeldUpdates(w) THEN Committed(u).status
                                   ELSE status[u]]
    /\ author' = [u \in Update |-> IF u \in HeldUpdates(w) THEN Committed(u).author
                                   ELSE author[u]]
    /\ tokens' = [t \in DOMAIN tokens |->
           IF t \in HeldKeys(w)
           THEN [user |-> heldTokens[t].user, uses |-> heldTokens[t].uses,
                 sent |-> heldTokens[t].sent]
           ELSE tokens[t]]
    /\ undone' = undone \cup {tokens[t].user : t \in HeldKeys(w)}
    /\ Release(w)

\* The worker dies, or the mail raises.
Kill(w) ==
    LET h == work[w].hand
        atHand == IF h = None THEN {} ELSE {h.letter}
    IN  /\ kills < MaxKills
        /\ ~Idle(w)
        /\ kills' = kills + 1
        /\ work' = [work EXCEPT ![w] = NoWork]
        /\ untold' = untold \cup
               ({l.update : l \in work[w].letters \cup atHand} \cap Update)
        /\ unmailed' = unmailed \cup {<<l.user, l.project>> : l \in atHand}
        /\ Rollback(w)
        /\ UNCHANGED <<assigned, requests, mailed, letters, told, overlapped>>

-----------------------------------------------------------------------------
Request(w) ==
    \/ \E x \in User, u \in Update :
          \/ \E s \in Status : CreateUpdate(w, x, u, s)
          \/ \E asked \in Status \cup {None} : OpenUpdate(w, x, u, asked)
          \/ DeleteFile(w, x, u)
          \/ DeleteUpdate(w, x, u)
    \/ \E us \in SUBSET Update, s \in Status : SetUpdatesStatus(w, us, s)
    \/ \E p \in Project, xs \in SUBSET Enumerator :
          \/ AssignIndicators(w, p, xs)
          \/ \E preview \in BOOLEAN : SendAssignments(w, p, xs, preview)

WorkStep(w) ==
    \/ \E r \in work[w].rows : SaveRow(w, r)
    \/ ReadApproved(w)
    \/ ReadOthers(w)
    \/ EndRequest(w)
    \/ Commit(w)
    \/ \E l \in work[w].letters : MailWithoutLink(w, l) \/ ReadToken(w, l)
    \/ WriteToken(w)
    \/ Mail(w)

Next == \E w \in Worker : Request(w) \/ WorkStep(w) \/ Kill(w)

Spec == Init /\ [][Next]_vars

-----------------------------------------------------------------------------
(* Properties.                                                              *)

AtHand(w) == IF work[w].hand = None THEN {} ELSE {work[w].hand.letter}
Coming(u, x) ==
    \E w \in Worker : \E l \in work[w].letters \cup AtHand(w) : l.update = u /\ l.user = x

\* An update that is returned has had its present author mailed since then, or the
\* mail is coming, whoever edited it meanwhile and whatever rows were saved from
\* memory; but for updates returned in bulk, for a mail that failed, and for an
\* author set by a deleted file on a row read before the return.
ReturnedTold ==
    \A u \in Update \ untold :
        Committed(u).status = "R" =>
            LET a == Committed(u).author IN <<u, a>> \in told \/ Coming(u, a)

\* Unless changes of a user's token overlapped, those of a POST until it commits,
\* or were taken back with a POST whose mails were out, there is one token (once
\* the POSTs that go on commit), it shows a date for every project whose link was
\* mailed (_get_enumerators reads the last token, _update_user_token writes the
\* first), and it admits JWT_MAX_USE uses per link.
MailsShown ==
    \A x \in User \ (overlapped \cup undone) :
        /\ Cardinality(TokensOf(x)) <= 1
        /\ letters[x] > 0 =>
              LET token == tokens[Last(TokensOf(x))]
              IN  /\ {p \in Project : <<x, p>> \in mailed} \subseteq token.sent
                  /\ letters[x] <= token.uses

\* A date shown for a project means that the link was mailed, or is about to be,
\* or that the mail failed after the token was written: previews and overlapping
\* changes show none that was not.
ShownIsMailed ==
    \A t \in DOMAIN tokens : \A p \in tokens[t].sent :
        LET a == <<tokens[t].user, p>>
        IN  \/ a \in mailed \cup unmailed
            \/ \E w \in Worker : \E l \in AtHand(w) : a = <<l.user, l.project>>
=============================================================================
