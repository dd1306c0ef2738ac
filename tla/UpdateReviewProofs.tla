-------------------------- MODULE UpdateReviewProofs --------------------------
(* Proofs about UpdateReview, for any number of workers, users, projects,     *)
(* updates and requests.                                                      *)
EXTENDS UpdateReview, FiniteSetTheorems, SequenceTheorems, WellFoundedInduction, TLAPS

(* Tokens ---------------------------------------------------------------------*)

\* The least element of a finite set of numbers: the one with the smallest set of
\* elements up to it.
LEMMA LeastNatural ==
    ASSUME NEW T, T \subseteq Nat, IsFiniteSet(T), T # {}
    PROVE  \E n \in T : \A m \in T : n <= m
<1> DEFINE UpTo(n) == {m \in T : m <= n}
           Sets == {UpTo(n) : n \in T}
<1>1. IsWellFoundedOn(StrictSubsetOrdering(T), SUBSET T)
  <2>1. FiniteSubsetsOf(T) = SUBSET T
    BY FS_FiniteSubsetsOfFinite
  <2>2. IsWellFoundedOn(StrictSubsetOrdering(T), FiniteSubsetsOf(T))
    BY FS_StrictSubsetOrderingWellFounded, Zenon
  <2>3. QED
    BY <2>1, <2>2, Zenon
<1>2. Sets \subseteq SUBSET T /\ Sets # {}
  OBVIOUS
<1>3. PICK X \in Sets : \A Y \in Sets : ~(<<Y, X>> \in StrictSubsetOrdering(T))
  <2> HIDE DEF Sets
  <2>1. QED
    BY <1>1, <1>2, WFMin
<1>4. PICK n \in T : X = UpTo(n)
  OBVIOUS
<1>5. ASSUME NEW m \in T, ~(n <= m)
      PROVE  FALSE
  <2>1. m \in Nat /\ n \in Nat
    OBVIOUS
  <2>2. UpTo(m) \subseteq UpTo(n) /\ n \in UpTo(n) /\ n \notin UpTo(m)
    <3>1. \A k \in T : k \in Nat /\ (k <= m => k <= n)
      <4>1. \A k \in T : k \in Nat
        OBVIOUS
      <4>2. QED
        BY <1>5, <2>1, <4>1
    <3>2. n <= n
      BY <2>1
    <3>3. QED
      BY <1>5, <3>1, <3>2
  <2>3. <<UpTo(m), UpTo(n)>> \in StrictSubsetOrdering(T)
    BY <2>2 DEF StrictSubsetOrdering
  <2>4. QED
    BY <1>3, <1>4, <2>3
<1>6. QED
  BY <1>5

\* The first of some tokens is one of them.
LEMMA FirstToken ==
    ASSUME tokens \in Seq(Token), NEW keys \in SUBSET DOMAIN tokens, keys # {}
    PROVE  First(keys) \in keys /\ First(keys) \in 1 .. Len(tokens)
<1>1. keys \subseteq 1 .. Len(tokens) /\ keys \subseteq Nat
  OBVIOUS
<1>2. IsFiniteSet(keys)
  BY <1>1, FS_Interval, FS_Subset
<1>3. \E t \in keys : \A s \in keys : t <= s
  BY <1>1, <1>2, LeastNatural
<1>4. First(keys) \in keys
  BY <1>3 DEF First
<1>5. QED
  BY <1>1, <1>4

(* Types ----------------------------------------------------------------------*)

RowsOK ==
    /\ status \in [Update -> Status \cup {None}]
    /\ author \in [Update -> User \cup {None}]
    /\ \A u \in Update : (status[u] = None) = (author[u] = None)
    /\ heldRows \in [Update -> HeldRow \cup {None}]
    /\ \A u \in Update : heldRows[u] # None =>
          (heldRows[u].status = None) = (heldRows[u].author = None)

IssuedOK ==
    /\ tokens \in Seq(Token)
    /\ heldTokens \in Seq(HeldToken \cup {None}) /\ Len(heldTokens) = Len(tokens)

OtherOK ==
    /\ assigned \subseteq User \X Project
    /\ letters \in [User -> Nat]
    /\ requests \in 0 .. MaxRequests /\ kills \in 0 .. MaxKills

WorkOK ==
    /\ work \in [Worker -> Work]
    /\ \A w \in Worker :
          /\ work[w].hand # None => work[w].hand.token \in 0 .. Len(tokens)
          /\ work[w].phase \in {"approved", "others"} =>
                \A r \in work[w].rows :
                    r.whole /\ (r.status = "A") = (work[w].phase = "approved")

\* TypeOK part by part.
LEMMA TypeParts ==
    /\ TypeOK <=> RowsOK /\ IssuedOK /\ OtherOK /\ WorkOK
    /\ TypeOK' <=> RowsOK' /\ IssuedOK' /\ OtherOK' /\ WorkOK'
BY DEF TypeOK, RowsOK, IssuedOK, OtherOK, WorkOK

\* What a worker goes on with; tokens are not removed.
LEMMA WorkType ==
    ASSUME WorkOK, NEW w \in Worker, NEW i \in Work, work' = [work EXCEPT ![w] = i],
           tokens \in Seq(Token), tokens' \in Seq(Token), Len(tokens) <= Len(tokens'),
           i.hand # None => i.hand.token \in 0 .. Len(tokens'),
           i.phase \in {"approved", "others"} =>
               \A r \in i.rows : r.whole /\ (r.status = "A") = (i.phase = "approved")
    PROVE  WorkOK'
<1>1. work' \in [Worker -> Work] /\ work'[w] = i /\ \A v \in Worker : v # w => work'[v] = work[v]
  BY DEF WorkOK
<1>2. Len(tokens) \in Nat /\ Len(tokens') \in Nat
  OBVIOUS
<1>3. \A v \in Worker : work'[v].hand # None => work'[v].hand.token \in 0 .. Len(tokens')
  BY <1>1, <1>2 DEF WorkOK
<1>4. QED
  BY <1>1, <1>3 DEF WorkOK

\* An idle worker holds nothing.
LEMMA NoWorkType ==
    /\ NoWork \in Work
    /\ NoWork.phase = "idle" /\ NoWork.hand = None /\ NoWork.letters = {}
BY DEF NoWork, Work, Phase

\* A recalculation, if one follows.
LEMMA AfterwardsType ==
    ASSUME NEW u \in Update, NEW s
    PROVE  /\ Afterwards(u, s) \in Work
           /\ Afterwards(u, s).hand = None /\ Afterwards(u, s).letters = {}
           /\ Afterwards(u, s).phase \in {"idle", "recalculate"}
BY ReviewAssumption DEF Afterwards, NoWork, Work, Phase

\* The same after letters that are to be sent.
After(u, s, ls) == [Afterwards(u, s) EXCEPT !.letters = ls]

\* What a worker goes on with after a save is work.
LEMMA AfterType ==
    ASSUME NEW u \in Update, NEW s, NEW ls \in SUBSET Letter
    PROVE  /\ After(u, s, ls) \in Work
           /\ After(u, s, ls).hand = None /\ After(u, s, ls).letters = ls
           /\ After(u, s, ls).phase \in {"idle", "recalculate"}
BY AfterwardsType DEF After, Work

\* The same in a POST.
Posted(u, s, ls) == [Afterwards(u, s) EXCEPT !.post = TRUE, !.letters = ls]

\* What a POST goes on with after the insert is work.
LEMMA PostedType ==
    ASSUME NEW u \in Update, NEW s, NEW ls \in SUBSET Letter
    PROVE  /\ Posted(u, s, ls) \in Work
           /\ Posted(u, s, ls).hand = None /\ Posted(u, s, ls).letters = ls
           /\ Posted(u, s, ls).phase \in {"idle", "recalculate"}
<1> DEFINE i == Afterwards(u, s)
<1>1. i \in Work /\ i.hand = None /\ i.phase \in {"idle", "recalculate"}
  BY AfterwardsType
<1>2. Posted(u, s, ls) = [i EXCEPT !.post = TRUE, !.letters = ls]
  BY DEF Posted
<1> HIDE DEF i
<1>3. QED
  BY <1>1, <1>2 DEF Work

\* The letters about a returned update are letters.
LEMMA ReturnLettersType ==
    ASSUME NEW r, r.update \in Update, r.author \in User
    PROVE  ReturnLetters(r) \in SUBSET Letter
BY ReviewAssumption DEF ReturnLetters, Letter

\* What is committed of a row, and what a worker sees of it.
LEMMA SeenType ==
    ASSUME RowsOK, NEW w, NEW u \in Update
    PROVE  /\ Committed(u).status \in Status \cup {None}
           /\ Committed(u).author \in User \cup {None}
           /\ (Committed(u).status = None) = (Committed(u).author = None)
           /\ Seen(w, u).status \in Status \cup {None}
           /\ Seen(w, u).author \in User \cup {None}
           /\ (Seen(w, u).status = None) = (Seen(w, u).author = None)
<1>1. heldRows[u] # None => heldRows[u] \in HeldRow
  BY DEF RowsOK
<1>2. /\ Committed(u).status \in Status \cup {None}
      /\ Committed(u).author \in User \cup {None}
      /\ (Committed(u).status = None) = (Committed(u).author = None)
  BY <1>1 DEF RowsOK, Committed, Latest, HeldRow
<1>3. /\ Latest(u).status \in Status \cup {None}
      /\ Latest(u).author \in User \cup {None}
      /\ (Latest(u).status = None) = (Latest(u).author = None)
  BY DEF RowsOK, Latest
<1>4. Seen(w, u) = Latest(u) \/ Seen(w, u) = Committed(u)
  BY DEF Seen
<1>5. QED
  BY <1>2, <1>3, <1>4

\* The row of an update that is seen is a row.
LEMMA RowOfType ==
    ASSUME RowsOK, NEW w, NEW u \in Update, Seen(w, u).status # None
    PROVE  RowOf(w, u) \in Row
BY SeenType DEF RowOf, Row

\* What a worker holds while it is at something.
LEMMA WorkFields ==
    ASSUME WorkOK, NEW w \in Worker
    PROVE  /\ work[w] \in Work
           /\ work[w].phase \in Phase /\ work[w].at \in Project \cup {None}
           /\ work[w].rows \subseteq Row /\ work[w].letters \subseteq Letter
           /\ work[w].hand \in Hand \cup {None}
BY DEF WorkOK, Work

\* What a worker saves and what it goes on with afterwards.
LEMMA SaveRowType ==
    ASSUME RowsOK, IssuedOK, WorkOK, NEW w \in Worker, NEW r \in work[w].rows, SaveRow(w, r)
    PROVE  RowsOK' /\ WorkOK'
<1> USE ReviewAssumption
<1>1. r \in Row /\ r.update \in Update /\ r.status \in Status /\ r.author \in User
  BY WorkFields DEF Row
<1>2. /\ tokens \in Seq(Token) /\ tokens' = tokens
      /\ Len(tokens) \in Nat /\ Len(tokens) <= Len(tokens')
  BY DEF SaveRow, IssuedOK, issued
<1>3. ReturnLetters(r) \in SUBSET Letter
  BY <1>1, ReturnLettersType
<1> DEFINE after == After(r.update, r.status, ReturnLetters(r))
           again == [work[w] EXCEPT !.rows = work[w].rows \ {r},
                                    !.letters = ReturnLetters(r)]
<1>4. ASSUME work' = [work EXCEPT ![w] = after]
      PROVE  WorkOK'
  <2>1. after \in Work /\ after.hand = None /\ after.phase \in {"idle", "recalculate"}
    BY <1>1, <1>3, AfterType
  <2> HIDE DEF after
  <2>2. QED
    BY <1>2, <1>4, <2>1, WorkType
<1>5. CASE r.whole
  <2>1. SaveWhole(w, r)
    BY <1>5 DEF SaveRow
  <2>2. RowsOK'
    <3>1. heldRows' \in [Update -> HeldRow \cup {None}]
          /\ \A u \in Update : heldRows'[u] # None =>
                (heldRows'[u].status = None) = (heldRows'[u].author = None)
      <4> DEFINE held == [by |-> w, status |-> status[r.update],
                          author |-> author[r.update]]
      <4>1. held \in HeldRow /\ (held.status = None) = (held.author = None)
        BY <1>1 DEF RowsOK, HeldRow
      <4>2. heldRows' = [heldRows EXCEPT ![r.update] = held] \/ heldRows' = heldRows
        BY <2>1 DEF SaveWhole
      <4> HIDE DEF held
      <4>3. QED
        BY <4>1, <4>2 DEF RowsOK
    <3>2. QED
      BY <1>1, <2>1, <3>1 DEF SaveWhole, RowsOK
  <2>3. CASE work[w].phase = "request"
    <3>1. work' = [work EXCEPT ![w] = after]
      BY <2>1, <2>3 DEF SaveWhole, After
    <3>2. QED
      BY <1>4, <2>2, <3>1
  <2>4. CASE work[w].phase # "request"
    <3>1. work' = [work EXCEPT ![w] = again]
      BY <2>1, <2>4 DEF SaveWhole
    <3>2. /\ again \in Work /\ again.hand = work[w].hand /\ again.phase = work[w].phase
          /\ again.rows = work[w].rows \ {r}
      <4>1. work[w].rows \ {r} \in SUBSET Row
        BY WorkFields
      <4> HIDE DEF ReturnLetters
      <4>2. QED
        BY <1>3, <4>1, WorkFields DEF Work
    <3> HIDE DEF again
    <3>3. again.hand # None => again.hand.token \in 0 .. Len(tokens')
      BY <1>2, <3>2 DEF WorkOK
    <3>4. again.phase \in {"approved", "others"} =>
              \A x \in again.rows : x.whole /\ (x.status = "A") = (again.phase = "approved")
      BY <3>2 DEF WorkOK
    <3>5. WorkOK'
      BY <1>2, <3>1, <3>2, <3>3, <3>4, WorkType
    <3>6. QED
      BY <2>2, <3>5
  <2>5. QED
    BY <2>3, <2>4
<1>6. CASE ~r.whole /\ status[r.update] # None
  <2>1. SaveUser(w, r)
    BY <1>6 DEF SaveRow
  <2>2. RowsOK'
    BY <1>1, <1>6, <2>1 DEF SaveUser, RowsOK
  <2>3. QED
    BY <1>4, <2>1, <2>2 DEF SaveUser, After
<1>7. CASE ~r.whole /\ status[r.update] = None
  <2>1. work' = [work EXCEPT ![w] = NoWork] /\ UNCHANGED rows
    BY <1>7 DEF SaveRow
  <2>2. RowsOK'
    BY <2>1 DEF rows, RowsOK
  <2>3. QED
    BY <1>2, <2>1, <2>2, NoWorkType, WorkType
<1>8. QED
  BY <1>5, <1>6, <1>7

\* The token that is written.
LEMMA TokenAtHandType ==
    ASSUME NEW h \in Hand
    PROVE  TokenAtHand(h) \in Token
<1>1. h.letter \in Letter /\ h.uses \in Nat /\ h.sent \in SUBSET Project
  BY DEF Hand
<1>2. h.letter.user \in User /\ h.letter.project \in Project
  BY <1>1 DEF Letter
<1>3. QED
  BY <1>1, <1>2 DEF TokenAtHand, Token

\* Tokens as a worker sees them.
LEMMA SeenTokenType ==
    ASSUME IssuedOK, NEW w, NEW t \in DOMAIN tokens
    PROVE  /\ SeenToken(w, t).user \in User \cup {None}
           /\ SeenToken(w, t).uses \in Nat /\ SeenToken(w, t).sent \in SUBSET Project
<1>1. tokens[t] \in Token
  BY DEF IssuedOK
<1>2. heldTokens[t] \in HeldToken \cup {None}
  BY DEF IssuedOK
<1>3. QED
  BY <1>1, <1>2 DEF SeenToken, Token, HeldToken

\* The token a worker reads to send a letter.
LEMMA HandOfType ==
    ASSUME IssuedOK, NEW w, NEW l \in Letter
    PROVE  /\ HandOf(w, l) \in Hand
           /\ HandOf(w, l).letter = l /\ ~HandOf(w, l).written
           /\ SeenOf(w, l.user) = {} =>
                 HandOf(w, l).token = 0 /\ HandOf(w, l).sent = {}
           /\ SeenOf(w, l.user) # {} =>
                 /\ HandOf(w, l).token = First(SeenOf(w, l.user))
                 /\ HandOf(w, l).token \in SeenOf(w, l.user)
                 /\ HandOf(w, l).token \in 1 .. Len(tokens)
                 /\ HandOf(w, l).uses = SeenToken(w, HandOf(w, l).token).uses
                 /\ HandOf(w, l).sent = SeenToken(w, HandOf(w, l).token).sent
<1> DEFINE keys == SeenOf(w, l.user)
           t == IF keys = {} THEN 0 ELSE First(keys)
<1>1. keys # {} => First(keys) \in keys /\ First(keys) \in 1 .. Len(tokens)
  <2>1. keys \in SUBSET DOMAIN tokens /\ tokens \in Seq(Token)
    BY DEF SeenOf, IssuedOK
  <2> HIDE DEF keys
  <2>2. QED
    BY <2>1, FirstToken
<1>2. /\ keys = {} => t = 0
      /\ keys # {} => t = First(keys) /\ t \in keys /\ t \in 1 .. Len(tokens)
  BY <1>1
<1>3. Len(tokens) \in Nat /\ t \in Nat /\ (t = 0 <=> keys = {})
  <2> HIDE DEF keys
  <2>1. Len(tokens) \in Nat
    BY DEF IssuedOK
  <2>2. QED
    BY <1>2, <2>1
<1>4. t # 0 => SeenToken(w, t).uses \in Nat /\ SeenToken(w, t).sent \in SUBSET Project
  <2>1. t # 0 => t \in DOMAIN tokens
    BY <1>2, <1>3 DEF SeenOf
  <2> HIDE DEF t
  <2>2. QED
    BY <2>1, SeenTokenType
<1>5. HandOf(w, l) = [letter |-> l, token |-> t, written |-> FALSE,
                      uses |-> IF t = 0 THEN 0 ELSE SeenToken(w, t).uses,
                      sent |-> IF t = 0 THEN {} ELSE SeenToken(w, t).sent]
  BY DEF HandOf
<1> HIDE DEF t, keys
<1>6. HandOf(w, l) \in Hand
  BY <1>3, <1>4, <1>5 DEF Hand
<1>7. /\ HandOf(w, l).letter = l /\ ~HandOf(w, l).written /\ HandOf(w, l).token = t
      /\ t = 0 => HandOf(w, l).sent = {}
      /\ t # 0 => /\ HandOf(w, l).uses = SeenToken(w, t).uses
                  /\ HandOf(w, l).sent = SeenToken(w, t).sent
  BY <1>5
<1>8. QED
  BY <1>2, <1>3, <1>6, <1>7 DEF keys

\* Writing a token leaves tokens, and none is removed.
LEMMA WriteTokenType ==
    ASSUME IssuedOK, WorkOK, NEW w \in Worker, WriteToken(w)
    PROVE  IssuedOK' /\ Len(tokens) <= Len(tokens')
<1> USE ReviewAssumption
<1> DEFINE h == work[w].hand
           new == TokenAtHand(h)
<1>1. h \in Hand /\ tokens \in Seq(Token) /\ h.token \in 0 .. Len(tokens)
  BY WorkFields DEF WriteToken, IssuedOK, WorkOK
<1>2. new \in Token /\ Len(tokens) \in Nat
  BY <1>1, TokenAtHandType
<1>3. heldTokens \in Seq(HeldToken \cup {None}) /\ Len(heldTokens) = Len(tokens)
  BY DEF IssuedOK
<1>4. CASE ~Changes(h)
  BY <1>1, <1>2, <1>4 DEF WriteToken, IssuedOK, issued
<1>5. CASE Changes(h) /\ h.token = 0
  <2>1. PICK held \in HeldToken \cup {None} :
            tokens' = Append(tokens, new) /\ heldTokens' = Append(heldTokens, held)
    <3> DEFINE gap == [by |-> w, user |-> None, uses |-> 0, sent |-> {}]
    <3>1. gap \in HeldToken
      BY DEF HeldToken
    <3>2. heldTokens' = Append(heldTokens, gap) \/ heldTokens' = Append(heldTokens, None)
      BY <1>5 DEF WriteToken, IssueToken
    <3>3. tokens' = Append(tokens, new)
      BY <1>5 DEF WriteToken, IssueToken
    <3> HIDE DEF gap, new
    <3>4. QED
      BY <3>1, <3>2, <3>3
  <2> HIDE DEF new
  <2>2. QED
    BY <1>1, <1>2, <1>3, <2>1, AppendProperties DEF IssuedOK
<1>6. CASE Changes(h) /\ h.token # 0
  <2>1. SaveToken(w, h.token, new) /\ h.token \in 1 .. Len(tokens)
    BY <1>1, <1>2, <1>6 DEF WriteToken
  <2> DEFINE t == h.token
             held == [by |-> w, user |-> tokens[t].user, uses |-> tokens[t].uses,
                      sent |-> tokens[t].sent]
  <2>2. /\ tokens' = [tokens EXCEPT ![t] = new]
        /\ heldTokens' = [heldTokens EXCEPT ![t] = held] \/ heldTokens' = heldTokens
    BY <2>1 DEF SaveToken
  <2>3. held \in HeldToken
    <3>1. tokens[t] \in Token
      BY <1>1, <2>1
    <3>2. QED
      BY <3>1 DEF Token, HeldToken
  <2>4. t \in 1 .. Len(tokens) /\ t \in 1 .. Len(heldTokens)
    BY <1>3, <2>1
  <2> HIDE DEF t, h, held, new
  <2>5. tokens' \in Seq(Token) /\ Len(tokens') = Len(tokens)
    BY <1>1, <1>2, <2>2, <2>4, ExceptSeq
  <2>6. heldTokens' \in Seq(HeldToken \cup {None}) /\ Len(heldTokens') = Len(heldTokens)
    BY <1>3, <2>2, <2>3, <2>4, ExceptSeq
  <2>7. QED
    BY <1>2, <1>3, <2>5, <2>6 DEF IssuedOK
<1>7. QED
  BY <1>4, <1>5, <1>6

\* The end of a POST releases rows and tokens, as they are or as they were.
LEMMA ReleaseType ==
    ASSUME RowsOK, IssuedOK, NEW w \in Worker, Release(w)
    PROVE  /\ heldRows' \in [Update -> HeldRow \cup {None}]
           /\ \A u \in Update : heldRows'[u] # None => heldRows'[u] = heldRows[u]
           /\ heldTokens' \in Seq(HeldToken \cup {None}) /\ Len(heldTokens') = Len(tokens)
<1>1. /\ heldRows' \in [Update -> HeldRow \cup {None}]
      /\ \A u \in Update : heldRows'[u] # None => heldRows'[u] = heldRows[u]
  BY DEF Release, RowsOK
<1>2. /\ Len(tokens) \in Nat
      /\ \A t \in 1 .. Len(tokens) : heldTokens[t] \in HeldToken \cup {None}
  BY DEF IssuedOK
<1>3. heldTokens' = [t \in 1 .. Len(tokens) |->
                        IF t \in HeldKeys(w) THEN None ELSE heldTokens[t]]
  BY DEF Release, IssuedOK
<1>4. heldTokens' \in [1 .. Len(tokens) -> HeldToken \cup {None}]
  BY <1>2, <1>3
<1>5. QED
  BY <1>1, <1>2, <1>3, <1>4, SeqDef DEF IssuedOK

\* What a killed POST takes back.
LEMMA RollbackType ==
    ASSUME RowsOK, IssuedOK, NEW w \in Worker, Rollback(w)
    PROVE  RowsOK' /\ IssuedOK' /\ Len(tokens') = Len(tokens)
<1>1. Release(w)
  BY DEF Rollback
<1>2. RowsOK'
  <2>1. \A u \in Update : /\ Committed(u).status \in Status \cup {None}
                         /\ Committed(u).author \in User \cup {None}
                         /\ (Committed(u).status = None) = (Committed(u).author = None)
    BY SeenType
  <2>2. /\ status' \in [Update -> Status \cup {None}]
        /\ author' \in [Update -> User \cup {None}]
    BY <2>1 DEF Rollback, RowsOK
  <2>3. \A u \in Update : (status'[u] = None) = (author'[u] = None)
    BY <2>1 DEF Rollback, RowsOK
  <2>4. QED
    BY <1>1, <2>2, <2>3, ReleaseType DEF RowsOK
<1>3. Len(tokens) \in Nat /\ DOMAIN tokens = 1 .. Len(tokens)
  BY DEF IssuedOK
<1> DEFINE was(t) == [user |-> heldTokens[t].user, uses |-> heldTokens[t].uses,
                      sent |-> heldTokens[t].sent]
<1>4. \A t \in 1 .. Len(tokens) :
          tokens[t] \in Token /\ (t \in HeldKeys(w) => was(t) \in Token)
  <2> SUFFICES ASSUME NEW t \in 1 .. Len(tokens)
               PROVE  tokens[t] \in Token /\ (t \in HeldKeys(w) => was(t) \in Token)
    OBVIOUS
  <2>1. tokens[t] \in Token /\ heldTokens[t] \in HeldToken \cup {None}
    BY DEF IssuedOK
  <2>2. QED
    BY <2>1 DEF HeldKeys, HeldToken, Token
<1>5. tokens' = [t \in 1 .. Len(tokens) |-> IF t \in HeldKeys(w) THEN was(t) ELSE tokens[t]]
  BY <1>3 DEF Rollback
<1> HIDE DEF was
<1>6. tokens' \in [1 .. Len(tokens) -> Token]
  BY <1>4, <1>5
<1>7. tokens' \in Seq(Token) /\ Len(tokens') = Len(tokens)
  BY <1>3, <1>5, <1>6, SeqDef
<1>8. IssuedOK'
  BY <1>1, <1>7, ReleaseType DEF IssuedOK
<1>9. QED
  BY <1>2, <1>7, <1>8

\* No step leaves the types.
LEMMA ReviewTypeStep == TypeOK /\ [Next]_vars => TypeOK'
<1> SUFFICES ASSUME TypeOK, [Next]_vars
             PROVE  RowsOK' /\ IssuedOK' /\ OtherOK' /\ WorkOK'
  BY TypeParts
<1> USE ReviewAssumption
<1>1. RowsOK /\ IssuedOK /\ OtherOK /\ WorkOK
  BY TypeParts
<1>2. /\ tokens \in Seq(Token) /\ Len(tokens) \in Nat /\ Len(tokens) <= Len(tokens)
      /\ requests \in Nat /\ kills \in Nat
  BY <1>1 DEF OtherOK, IssuedOK
<1>3. ASSUME NEW w \in Worker, Accept(w),
             UNCHANGED <<assigned, issued, kills, letters>>
      PROVE  IssuedOK' /\ OtherOK'
  <2>1. requests' \in 0 .. MaxRequests
    BY <1>2, <1>3 DEF Accept
  <2>2. QED
    BY <1>1, <1>3, <2>1 DEF OtherOK, IssuedOK, issued
<1>4. ASSUME UNCHANGED <<assigned, issued, requests, kills, letters>>
      PROVE  IssuedOK' /\ OtherOK'
  BY <1>1, <1>4 DEF OtherOK, IssuedOK, issued
<1>5. ASSUME NEW w \in Worker, NEW i \in Work, work' = [work EXCEPT ![w] = i], i.hand = None,
             i.phase \notin {"approved", "others"}, tokens' = tokens
      PROVE  WorkOK'
  BY <1>1, <1>2, <1>5, WorkType
<1>6. ASSUME NEW w \in Worker, NEW x \in User, NEW u \in Update, NEW s \in Status,
             CreateUpdate(w, x, u, s)
      PROVE  RowsOK' /\ IssuedOK' /\ OtherOK' /\ WorkOK'
  <2> DEFINE r == [update |-> u, status |-> s, author |-> x]
             i == Posted(u, s, ReturnLetters(r))
             held == [by |-> w, status |-> None, author |-> None]
  <2>1. RowsOK'
    <3>1. held \in HeldRow /\ held.status = None /\ held.author = None
      BY DEF HeldRow
    <3>2. heldRows' = [heldRows EXCEPT ![u] = held]
      BY <1>6 DEF CreateUpdate
    <3> HIDE DEF held
    <3>3. /\ heldRows' \in [Update -> HeldRow \cup {None}]
          /\ \A v \in Update : heldRows'[v] # None =>
                (heldRows'[v].status = None) = (heldRows'[v].author = None)
      BY <1>1, <3>1, <3>2 DEF RowsOK
    <3>4. QED
      BY <1>1, <1>6, <3>3 DEF CreateUpdate, RowsOK
  <2>2. ReturnLetters(r) \in SUBSET Letter
    BY ReturnLettersType
  <2>3. i \in Work /\ i.hand = None /\ i.phase \in {"idle", "recalculate"}
    BY <2>2, PostedType
  <2>4. work' = [work EXCEPT ![w] = i]
    BY <1>6 DEF CreateUpdate, Posted
  <2> HIDE DEF i
  <2>5. WorkOK'
    BY <1>5, <1>6, <2>3, <2>4 DEF CreateUpdate, issued
  <2>6. IssuedOK' /\ OtherOK'
    BY <1>3, <1>6 DEF CreateUpdate
  <2>7. QED
    BY <2>1, <2>5, <2>6
<1>7. ASSUME NEW w \in Worker, NEW r \in Row, Accept(w), tokens' = tokens,
             work' = [work EXCEPT ![w].phase = "request", ![w].rows = {r}]
      PROVE  WorkOK'
  <2> DEFINE i == [work[w] EXCEPT !.phase = "request", !.rows = {r}]
  <2>1. work' = [work EXCEPT ![w] = i]
    BY <1>1, <1>7, WorkFields DEF WorkOK, Work
  <2>2. i \in Work /\ i.phase = "request" /\ i.hand = None
    BY <1>1, <1>7, WorkFields DEF Work, Phase, Accept, Idle, Saving
  <2> HIDE DEF i
  <2>3. QED
    BY <1>5, <1>7, <2>1, <2>2
<1>8. ASSUME NEW w \in Worker, NEW x \in User, NEW u \in Update,
             NEW asked \in Status \cup {None}, OpenUpdate(w, x, u, asked)
      PROVE  RowsOK' /\ IssuedOK' /\ OtherOK' /\ WorkOK'
  <2>1. RowOf(w, u) \in Row
    BY <1>1, <1>8, RowOfType DEF OpenUpdate, Visible
  <2>2. PatchedRow(w, x, u, asked) \in Row
    BY <2>1 DEF PatchedRow, Row
  <2>3. WorkOK'
    BY <1>7, <1>8, <2>2 DEF OpenUpdate, issued
  <2>4. RowsOK' /\ IssuedOK' /\ OtherOK'
    BY <1>1, <1>3, <1>8 DEF OpenUpdate, RowsOK, rows, history
  <2>5. QED
    BY <2>3, <2>4
<1>9. ASSUME NEW w \in Worker, NEW x \in User, NEW u \in Update, DeleteFile(w, x, u)
      PROVE  RowsOK' /\ IssuedOK' /\ OtherOK' /\ WorkOK'
  <2>1. RowOf(w, u) \in Row
    BY <1>1, <1>9, RowOfType DEF DeleteFile
  <2>2. [RowOf(w, u) EXCEPT !.author = x, !.whole = FALSE] \in Row
    BY <2>1 DEF Row
  <2>3. WorkOK'
    BY <1>7, <1>9, <2>2 DEF DeleteFile, issued
  <2>4. RowsOK' /\ IssuedOK' /\ OtherOK'
    BY <1>1, <1>3, <1>9 DEF DeleteFile, RowsOK, rows, history
  <2>5. QED
    BY <2>3, <2>4
<1>10. ASSUME NEW w \in Worker, NEW x \in User, NEW u \in Update, DeleteUpdate(w, x, u)
       PROVE  RowsOK' /\ IssuedOK' /\ OtherOK' /\ WorkOK'
  <2>1. RowsOK'
    BY <1>1, <1>10 DEF DeleteUpdate, RowsOK
  <2> DEFINE i == Afterwards(u, status[u])
  <2>2. i \in Work /\ i.hand = None /\ i.phase \in {"idle", "recalculate"}
    BY AfterwardsType
  <2>3. work' = [work EXCEPT ![w] = i]
    BY <1>10 DEF DeleteUpdate
  <2> HIDE DEF i
  <2>4. WorkOK' /\ IssuedOK' /\ OtherOK'
    BY <1>3, <1>5, <1>10, <2>2, <2>3 DEF DeleteUpdate, history, issued
  <2>5. QED
    BY <2>1, <2>4
<1>11. ASSUME NEW w \in Worker, NEW us \in SUBSET Update, NEW s \in Status,
              SetUpdatesStatus(w, us, s)
       PROVE  RowsOK' /\ IssuedOK' /\ OtherOK' /\ WorkOK'
  <2>1. RowsOK'
    BY <1>1, <1>11 DEF SetUpdatesStatus, RowsOK
  <2>2. QED
    BY <1>1, <1>3, <1>11, <2>1 DEF SetUpdatesStatus, WorkOK, issued
<1>12. ASSUME NEW w \in Worker, NEW p \in Project, NEW xs \in SUBSET Enumerator,
              AssignIndicators(w, p, xs)
       PROVE  RowsOK' /\ IssuedOK' /\ OtherOK' /\ WorkOK'
  <2>1. assigned' \subseteq User \X Project
    <3>1. assigned \subseteq User \X Project /\ xs \subseteq User
      BY <1>1 DEF OtherOK, Enumerator
    <3>2. QED
      BY <1>12, <3>1 DEF AssignIndicators
  <2>2. requests' \in 0 .. MaxRequests
    BY <1>2, <1>12 DEF AssignIndicators, Accept
  <2>3. QED
    BY <1>1, <1>12, <2>1, <2>2
       DEF AssignIndicators, RowsOK, IssuedOK, OtherOK, WorkOK, rows, issued, history
<1>13. ASSUME NEW w \in Worker, NEW p \in Project, NEW xs \in SUBSET Enumerator,
              NEW preview \in BOOLEAN, SendAssignments(w, p, xs, preview)
       PROVE  RowsOK' /\ IssuedOK' /\ OtherOK' /\ WorkOK'
  <2> DEFINE ls == {[user |-> x, project |-> p, update |-> None, preview |-> preview] :
                       x \in xs}
             i == [work[w] EXCEPT !.letters = ls]
  <2>1. ls \in SUBSET Letter
    BY DEF Enumerator, Letter
  <2>2. work' = [work EXCEPT ![w] = i]
    BY <1>1, <1>13 DEF SendAssignments, WorkOK
  <2> HIDE DEF ls
  <2>3. i \in Work /\ i.hand = None /\ i.phase = "idle"
    BY <1>1, <1>13, <2>1, WorkFields DEF SendAssignments, Accept, Idle, Saving, Work
  <2> HIDE DEF i
  <2>4. WorkOK' /\ IssuedOK' /\ OtherOK'
    BY <1>3, <1>5, <1>13, <2>2, <2>3 DEF SendAssignments, history, issued
  <2>5. RowsOK'
    BY <1>1, <1>13 DEF SendAssignments, RowsOK, rows
  <2>6. QED
    BY <2>4, <2>5
<1>14. ASSUME NEW w \in Worker, NEW r \in work[w].rows, SaveRow(w, r)
       PROVE  RowsOK' /\ IssuedOK' /\ OtherOK' /\ WorkOK'
  BY <1>1, <1>4, <1>14, SaveRowType DEF SaveRow
<1>15. ASSUME NEW w, NEW p, NEW approved \in BOOLEAN
       PROVE  /\ Period(w, p, approved) \in SUBSET Row
              /\ \A r \in Period(w, p, approved) : r.whole /\ (r.status = "A") = approved
  <2>1. \A u \in Update : Seen(w, u).status # None => RowOf(w, u) \in Row
    BY <1>1, RowOfType
  <2>2. QED
    BY <2>1 DEF Period, RowOf
<1>16. ASSUME NEW w \in Worker, ReadApproved(w) \/ ReadOthers(w)
       PROVE  RowsOK' /\ IssuedOK' /\ OtherOK' /\ WorkOK'
  <2>1. PICK approved \in BOOLEAN :
            work' = [work EXCEPT ![w].phase = IF approved THEN "approved" ELSE "others",
                                 ![w].rows = Period(w, work[w].at, approved)]
    BY <1>16 DEF ReadApproved, ReadOthers
  <2> DEFINE period == Period(w, work[w].at, approved)
             i == [work[w] EXCEPT !.phase = IF approved THEN "approved" ELSE "others",
                                  !.rows = period]
  <2>2. work' = [work EXCEPT ![w] = i]
    BY <1>1, <2>1, WorkFields DEF WorkOK, Work
  <2>3. period \in SUBSET Row /\ \A r \in period : r.whole /\ (r.status = "A") = approved
    BY <1>15
  <2>4. work[w].hand = None /\ UNCHANGED <<rows, assigned, issued, requests, kills, letters>>
    BY <1>16 DEF ReadApproved, ReadOthers, Saving, history
  <2> HIDE DEF period
  <2>5. /\ i \in Work /\ i.hand = None /\ i.rows = period
        /\ i.phase = IF approved THEN "approved" ELSE "others"
    BY <1>1, <2>3, <2>4, WorkFields DEF Work, Phase
  <2> HIDE DEF i
  <2>6. i.phase \in {"approved", "others"} =>
            \A r \in i.rows : r.whole /\ (r.status = "A") = (i.phase = "approved")
    BY <2>3, <2>5
  <2>7. WorkOK'
    BY <1>1, <1>2, <2>2, <2>4, <2>5, <2>6, WorkType DEF issued
  <2>8. RowsOK' /\ IssuedOK' /\ OtherOK'
    BY <1>1, <1>4, <2>4 DEF RowsOK, rows
  <2>9. QED
    BY <2>7, <2>8
<1>17. ASSUME NEW w \in Worker, EndRequest(w)
       PROVE  RowsOK' /\ IssuedOK' /\ OtherOK' /\ WorkOK'
  <2>1. WorkOK'
    BY <1>5, <1>17, NoWorkType DEF EndRequest, issued
  <2>2. QED
    BY <1>1, <1>4, <1>17, <2>1 DEF EndRequest, RowsOK, rows, history
<1>18. ASSUME NEW w \in Worker, NEW i \in Work, work' = [work EXCEPT ![w] = i],
              i.phase = work[w].phase, i.rows = work[w].rows,
              i.hand # None => i.hand.token \in 0 .. Len(tokens'),
              tokens' \in Seq(Token), Len(tokens) <= Len(tokens')
       PROVE  WorkOK'
  <2>1. i.phase \in {"approved", "others"} =>
            \A r \in i.rows : r.whole /\ (r.status = "A") = (i.phase = "approved")
    BY <1>1, <1>18 DEF WorkOK
  <2>2. QED
    BY <1>1, <1>2, <1>18, <2>1, WorkType
<1>19. ASSUME NEW w \in Worker, NEW l \in work[w].letters, MailWithoutLink(w, l)
       PROVE  RowsOK' /\ IssuedOK' /\ OtherOK' /\ WorkOK'
  <2> DEFINE i == [work[w] EXCEPT !.letters = @ \ {l}]
  <2>1. work' = [work EXCEPT ![w] = i]
    BY <1>1, <1>19 DEF MailWithoutLink, WorkOK
  <2>2. /\ i \in Work /\ i.hand = None /\ i.phase = work[w].phase
        /\ i.rows = work[w].rows
    <3>1. work[w].letters \ {l} \in SUBSET Letter
      BY <1>1, WorkFields
    <3>2. QED
      BY <1>1, <1>19, <3>1, WorkFields DEF Work, MailWithoutLink
  <2> HIDE DEF i
  <2>3. WorkOK'
    BY <1>2, <1>18, <1>19, <2>1, <2>2 DEF MailWithoutLink, issued
  <2>4. RowsOK' /\ IssuedOK' /\ OtherOK'
    BY <1>1, <1>4, <1>19 DEF MailWithoutLink, RowsOK, rows
  <2>5. QED
    BY <2>3, <2>4
<1>20. ASSUME NEW w \in Worker, NEW l \in work[w].letters, ReadToken(w, l)
       PROVE  RowsOK' /\ IssuedOK' /\ OtherOK' /\ WorkOK'
  <2> DEFINE h == HandOf(w, l)
             i == [work[w] EXCEPT !.letters = @ \ {l}, !.hand = h]
  <2>1. work' = [work EXCEPT ![w] = i]
    BY <1>1, <1>20, WorkFields DEF ReadToken, WorkOK, Work
  <2>2. l \in Letter
    BY <1>1, WorkFields
  <2>3. h \in Hand /\ h.token \in 0 .. Len(tokens)
    <3>1. /\ h \in Hand
          /\ h.token = 0 \/ h.token \in 1 .. Len(tokens)
      BY <1>1, <2>2, HandOfType
    <3> HIDE DEF h
    <3>2. QED
      BY <1>2, <3>1
  <2> HIDE DEF h
  <2>4. /\ i \in Work /\ i.hand = h /\ i.phase = work[w].phase /\ i.rows = work[w].rows
    <3>1. work[w].letters \ {l} \in SUBSET Letter
      BY <1>1, WorkFields
    <3>2. QED
      BY <1>1, <2>3, <3>1, WorkFields DEF Work
  <2> HIDE DEF i
  <2>5. WorkOK'
    BY <1>2, <1>18, <1>20, <2>1, <2>3, <2>4 DEF ReadToken, issued
  <2>6. RowsOK' /\ IssuedOK' /\ OtherOK'
    BY <1>1, <1>4, <1>20 DEF ReadToken, RowsOK, rows
  <2>7. QED
    BY <2>5, <2>6
<1>21. ASSUME NEW w \in Worker, WriteToken(w)
       PROVE  RowsOK' /\ IssuedOK' /\ OtherOK' /\ WorkOK'
  <2> DEFINE h == [work[w].hand EXCEPT !.written = TRUE]
             i == [work[w] EXCEPT !.hand = h]
  <2>1. work[w].hand \in Hand /\ work[w].hand.token \in 0 .. Len(tokens)
    BY <1>1, <1>21, WorkFields DEF WriteToken, WorkOK
  <2>2. work' = [work EXCEPT ![w] = i]
    BY <1>1, <1>21, <2>1, WorkFields DEF WriteToken, WorkOK, Work, Hand
  <2>3. h \in Hand /\ h.token = work[w].hand.token
    BY <2>1 DEF Hand
  <2> HIDE DEF h
  <2>4. /\ i \in Work /\ i.hand = h /\ i.phase = work[w].phase /\ i.rows = work[w].rows
    BY <1>1, <2>3, WorkFields DEF Work
  <2> HIDE DEF i
  <2>5. /\ IssuedOK' /\ tokens' \in Seq(Token)
        /\ Len(tokens) <= Len(tokens') /\ Len(tokens') \in Nat
    BY <1>1, <1>21, WriteTokenType DEF IssuedOK
  <2>6. i.hand.token \in 0 .. Len(tokens')
    BY <1>2, <2>1, <2>3, <2>4, <2>5
  <2>7. WorkOK'
    BY <1>18, <2>2, <2>4, <2>5, <2>6
  <2>8. RowsOK' /\ IssuedOK' /\ OtherOK'
    BY <1>1, <1>21, <2>5 DEF WriteToken, RowsOK, OtherOK, rows
  <2>9. QED
    BY <2>7, <2>8
<1>22. ASSUME NEW w \in Worker, Mail(w)
       PROVE  RowsOK' /\ IssuedOK' /\ OtherOK' /\ WorkOK'
  <2> DEFINE i == [work[w] EXCEPT !.hand = None]
  <2>1. work' = [work EXCEPT ![w] = i]
    BY <1>1, <1>22 DEF Mail, WorkOK
  <2>2. /\ i \in Work /\ i.hand = None /\ i.phase = work[w].phase /\ i.rows = work[w].rows
    BY <1>1, WorkFields DEF Work
  <2> HIDE DEF i
  <2>3. WorkOK'
    BY <1>2, <1>18, <1>22, <2>1, <2>2 DEF Mail, issued
  <2>4. letters' \in [User -> Nat]
    <3>1. work[w].hand.letter.user \in User
      BY <1>1, <1>22, WorkFields DEF Mail, Hand, Letter
    <3>2. QED
      BY <1>1, <1>22, <3>1 DEF Mail, OtherOK
  <2>5. RowsOK' /\ IssuedOK' /\ OtherOK'
    BY <1>1, <1>22, <2>4 DEF Mail, RowsOK, IssuedOK, OtherOK, rows, issued
  <2>6. QED
    BY <2>3, <2>5
<1>23. ASSUME NEW w \in Worker, Kill(w)
       PROVE  RowsOK' /\ IssuedOK' /\ OtherOK' /\ WorkOK'
  <2>1. kills' \in 0 .. MaxKills
    BY <1>2, <1>23 DEF Kill
  <2>2. RowsOK' /\ IssuedOK' /\ Len(tokens') = Len(tokens)
    BY <1>1, <1>23, RollbackType DEF Kill
  <2>3. tokens' \in Seq(Token) /\ Len(tokens) <= Len(tokens')
    BY <1>2, <2>2 DEF IssuedOK
  <2>4. work' = [work EXCEPT ![w] = NoWork]
    BY <1>23 DEF Kill
  <2>5. WorkOK'
    BY <1>1, <1>2, <2>3, <2>4, NoWorkType, WorkType
  <2>6. QED
    BY <1>1, <1>23, <2>1, <2>2, <2>5 DEF Kill, OtherOK
<1>24. ASSUME NEW w \in Worker, Commit(w)
       PROVE  RowsOK' /\ IssuedOK' /\ OtherOK' /\ WorkOK'
  <2>1. Release(w) /\ UNCHANGED <<status, author, assigned, tokens, requests, kills, letters>>
    BY <1>24 DEF Commit
  <2>2. RowsOK' /\ IssuedOK'
    BY <1>1, <2>1, ReleaseType DEF RowsOK, IssuedOK
  <2>3. WorkOK'
    BY <1>5, <1>24, NoWorkType DEF Commit
  <2>4. QED
    BY <1>1, <2>1, <2>2, <2>3 DEF OtherOK
<1>25. CASE UNCHANGED vars
  BY <1>1, <1>25 DEF vars, rows, issued, history, RowsOK, IssuedOK, OtherOK, WorkOK
<1>26. QED
  BY <1>6, <1>8, <1>9, <1>10, <1>11, <1>12, <1>13, <1>14, <1>16, <1>17, <1>19, <1>20,
     <1>21, <1>22, <1>23, <1>24, <1>25 DEF Next, Request, WorkStep

\* At the start there are no updates, tokens or requests.
LEMMA ReviewTypeInit == Init => TypeOK
<1> SUFFICES ASSUME Init
             PROVE  RowsOK /\ IssuedOK /\ OtherOK /\ WorkOK
  BY TypeParts
<1>1. RowsOK
  BY DEF Init, RowsOK
<1>2. IssuedOK /\ OtherOK
  BY ReviewAssumption DEF Init, IssuedOK, OtherOK
<1>3. WorkOK
  BY NoWorkType DEF Init, WorkOK
<1>4. QED
  BY <1>1, <1>2, <1>3

\* Whatever rows are saved from old copies, in whatever order: an update has an
\* author exactly if it has a status, a recalculation saves whole rows with the
\* status they were selected by, and a mail at hand belongs to a token that exists.
THEOREM ReviewTypes == Spec => []TypeOK
<1>1. Init => TypeOK
  BY ReviewTypeInit
<1>2. TypeOK /\ [Next]_vars => TypeOK'
  BY ReviewTypeStep
<1>3. QED
  BY <1>1, <1>2, PTL DEF Spec

(* Mails ----------------------------------------------------------------------*)

\* The letters of a worker that are still to go out.
Letters(w) == work[w].letters \cup AtHand(w)

\* What a step of a worker leaves alone.
LEMMA OthersStay ==
    ASSUME TypeOK, NEW w \in Worker, NEW v \in Worker, v # w, Request(w) \/ WorkStep(w) \/ Kill(w)
    PROVE  work'[v] = work[v]
<1>1. work \in [Worker -> Work]
  BY DEF TypeOK
<1>2. CASE Request(w)
  BY <1>1, <1>2 DEF Request, CreateUpdate, OpenUpdate, DeleteFile, DeleteUpdate,
     SetUpdatesStatus, AssignIndicators, SendAssignments
<1>3. ASSUME NEW r \in work[w].rows, SaveRow(w, r)
      PROVE  work'[v] = work[v]
  BY <1>1, <1>3 DEF SaveRow, SaveWhole, SaveUser
<1>4. CASE WorkStep(w)
  BY <1>1, <1>3, <1>4 DEF WorkStep, ReadApproved, ReadOthers, EndRequest, Commit,
     MailWithoutLink, ReadToken, WriteToken, Mail
<1>5. CASE Kill(w)
  BY <1>1, <1>5 DEF Kill
<1>6. QED
  BY <1>2, <1>4, <1>5

\* Requests and saves are the steps of workers that have no letter.
LEMMA NoLetters ==
    ASSUME TypeOK, NEW w \in Worker,
           \/ Request(w)
           \/ \E r \in work[w].rows : SaveRow(w, r)
           \/ ReadApproved(w) \/ ReadOthers(w) \/ EndRequest(w) \/ Commit(w)
    PROVE  /\ work[w].letters = {} /\ work[w].hand = None /\ Letters(w) = {}
           /\ work'[w].hand = None
           /\ UNCHANGED <<tokens, mailed, letters, unmailed, overlapped, undone>>
<1>1. work \in [Worker -> Work] /\ work[w] \in Work
  BY DEF TypeOK
<1>2. CASE Request(w)
  <2>1. Idle(w) /\ UNCHANGED <<tokens, mailed, letters, unmailed, overlapped, undone>>
    BY <1>2 DEF Request, CreateUpdate, OpenUpdate, DeleteFile, DeleteUpdate,
       SetUpdatesStatus, AssignIndicators, SendAssignments, Accept, history, issued
  <2>2. work'[w].hand = None
    <3>1. ASSUME NEW x \in User, NEW u \in Update, NEW s \in Status, CreateUpdate(w, x, u, s)
          PROVE  work'[w].hand = None
      <4> DEFINE ls == ReturnLetters([update |-> u, status |-> s, author |-> x])
      <4>1. work'[w] = Posted(u, s, ls)
        BY <1>1, <3>1 DEF CreateUpdate, Posted
      <4>2. ls \in SUBSET Letter
        BY ReturnLettersType
      <4> HIDE DEF ls
      <4>3. QED
        BY <4>1, <4>2, PostedType
    <3>2. ASSUME NEW x \in User, NEW u \in Update, DeleteUpdate(w, x, u)
          PROVE  work'[w].hand = None
      BY <1>1, <3>2, AfterwardsType DEF DeleteUpdate
    <3>3. ASSUME NEW x \in User, NEW u \in Update, NEW asked,
                 OpenUpdate(w, x, u, asked) \/ DeleteFile(w, x, u)
          PROVE  work'[w].hand = None
      BY <1>1, <2>1, <3>3 DEF OpenUpdate, DeleteFile, Idle, Saving, Work
    <3>4. ASSUME NEW p, NEW xs, NEW preview,
                 AssignIndicators(w, p, xs) \/ SendAssignments(w, p, xs, preview)
          PROVE  work'[w].hand = None
      BY <1>1, <2>1, <3>4 DEF AssignIndicators, SendAssignments, Idle, Saving, Work
    <3>5. ASSUME NEW us, NEW s, SetUpdatesStatus(w, us, s)
          PROVE  work'[w].hand = None
      BY <2>1, <3>5 DEF SetUpdatesStatus, Idle, Saving
    <3>6. QED
      BY <1>2, <3>1, <3>2, <3>3, <3>4, <3>5 DEF Request
  <2>3. QED
    BY <2>1, <2>2 DEF Idle, Saving, Letters, AtHand
<1>3. ASSUME NEW r \in work[w].rows, SaveRow(w, r)
      PROVE  /\ work[w].letters = {} /\ work[w].hand = None
             /\ work'[w].hand = None
             /\ UNCHANGED <<tokens, mailed, letters, unmailed, overlapped, undone>>
  <2>1. /\ work[w].letters = {} /\ work[w].hand = None
        /\ UNCHANGED <<tokens, mailed, letters, unmailed, overlapped, undone>>
    BY <1>3 DEF SaveRow, issued
  <2>2. r.update \in Update /\ r.author \in User /\ ReturnLetters(r) \in SUBSET Letter
    BY <1>1, ReturnLettersType DEF Work, Row
  <2> DEFINE i == After(r.update, r.status, ReturnLetters(r))
  <2>3. i.hand = None
    BY <2>2, AfterType
  <2>4. CASE r.whole
    <3>1. CASE work[w].phase = "request"
      <4>1. work'[w] = i
        BY <1>1, <1>3, <2>4, <3>1 DEF SaveRow, SaveWhole, After
      <4> HIDE DEF i
      <4>2. QED
        BY <2>1, <2>3, <4>1
    <3>2. CASE work[w].phase # "request"
      <4>1. work'[w] = [work[w] EXCEPT !.rows = work[w].rows \ {r},
                                       !.letters = ReturnLetters(r)]
        BY <1>1, <1>3, <2>4, <3>2 DEF SaveRow, SaveWhole
      <4>2. QED
        BY <1>1, <2>1, <4>1 DEF Work
    <3>3. QED
      BY <3>1, <3>2
  <2>5. CASE ~r.whole
    <3>1. work'[w] = i \/ work'[w] = NoWork
      BY <1>1, <1>3, <2>5 DEF SaveRow, SaveUser, After
    <3> HIDE DEF i
    <3>2. QED
      BY <2>1, <2>3, <3>1, NoWorkType
  <2>6. QED
    BY <2>4, <2>5
<1>4. CASE ReadApproved(w) \/ ReadOthers(w) \/ EndRequest(w) \/ Commit(w)
  <2>1. /\ work[w].letters = {} /\ work[w].hand = None
        /\ UNCHANGED <<tokens, mailed, letters, unmailed, overlapped, undone>>
    BY <1>4 DEF ReadApproved, ReadOthers, EndRequest, Commit, Saving, history, issued
  <2>2. ReadApproved(w) => work'[w].hand = None
    BY <1>1, <2>1 DEF ReadApproved, Work
  <2>3. ReadOthers(w) => work'[w].hand = None
    BY <1>1, <2>1 DEF ReadOthers, Work
  <2>4. EndRequest(w) => work'[w].hand = None
    BY <1>1, NoWorkType DEF EndRequest
  <2>5. Commit(w) => work'[w].hand = None
    BY <1>1, NoWorkType DEF Commit
  <2>6. QED
    BY <1>4, <2>1, <2>2, <2>3, <2>4, <2>5 DEF Letters, AtHand
<1>5. QED
  BY <1>2, <1>3, <1>4 DEF Letters, AtHand

\* A letter becomes one at hand, is written, goes out or is lost.
LEMMA LettersStep ==
    ASSUME TypeOK, NEW w \in Worker
    PROVE  /\ \A l \in work[w].letters : MailWithoutLink(w, l) =>
                 /\ Letters(w) \ {l} \subseteq Letters(w)'
                 /\ work[w].hand = None /\ work'[w].hand = None
           /\ \A l \in work[w].letters : ReadToken(w, l) =>
                 /\ Letters(w) \subseteq Letters(w)'
                 /\ work[w].hand = None
                 /\ work'[w].hand = HandOf(w, l)
                 /\ l \in Letter /\ HandOf(w, l) \in Hand
           /\ WriteToken(w) =>
                 /\ Letters(w) \subseteq Letters(w)'
                 /\ work[w].hand \in Hand /\ work'[w].hand \in Hand
                 /\ work'[w].hand = [work[w].hand EXCEPT !.written = TRUE]
           /\ Mail(w) =>
                 /\ Letters(w) \ {work[w].hand.letter} \subseteq Letters(w)'
                 /\ work[w].hand \in Hand /\ work'[w].hand = None
           /\ Kill(w) => Letters(w)' = {} /\ work'[w].hand = None
<1> USE ReviewAssumption
<1>1. /\ work \in [Worker -> Work] /\ work[w] \in Work
      /\ work[w].hand # None => work[w].hand \in Hand
      /\ IssuedOK
  BY TypeParts DEF TypeOK, Work
<1>2. ASSUME NEW l \in work[w].letters, MailWithoutLink(w, l)
      PROVE  /\ Letters(w) \ {l} \subseteq Letters(w)'
             /\ work[w].hand = None /\ work'[w].hand = None
  <2>1. work'[w].letters = work[w].letters \ {l} /\ work'[w].hand = work[w].hand
    BY <1>1, <1>2 DEF MailWithoutLink, Work
  <2>2. QED
    BY <1>2, <2>1 DEF MailWithoutLink, Letters, AtHand
<1>3. ASSUME NEW l \in work[w].letters, ReadToken(w, l)
      PROVE  /\ Letters(w) \subseteq Letters(w)'
             /\ work[w].hand = None
             /\ work'[w].hand = HandOf(w, l)
             /\ l \in Letter /\ HandOf(w, l) \in Hand
  <2> DEFINE h == HandOf(w, l)
  <2>1. work'[w].hand = h /\ work'[w].letters = work[w].letters \ {l}
    BY <1>1, <1>3 DEF ReadToken, Work
  <2>2. l \in Letter
    BY <1>1 DEF Work
  <2>3. h \in Hand /\ h.letter = l
    BY <1>1, <2>2, HandOfType
  <2>4. work[w].hand = None
    BY <1>3 DEF ReadToken
  <2> HIDE DEF h
  <2>5. Letters(w) \subseteq Letters(w)'
    BY <2>1, <2>3, <2>4 DEF Letters, AtHand
  <2>6. QED
    BY <2>1, <2>2, <2>3, <2>4, <2>5 DEF h
<1>4. ASSUME WriteToken(w)
      PROVE  /\ Letters(w) \subseteq Letters(w)'
             /\ work[w].hand \in Hand /\ work'[w].hand \in Hand
             /\ work'[w].hand = [work[w].hand EXCEPT !.written = TRUE]
  <2> DEFINE h == [work[w].hand EXCEPT !.written = TRUE]
  <2>1. work[w].hand \in Hand
    BY <1>1, <1>4 DEF WriteToken
  <2>2. work'[w].hand = h /\ work'[w].letters = work[w].letters
    BY <1>1, <1>4, <2>1 DEF WriteToken, Work, Hand
  <2>3. h \in Hand /\ h.letter = work[w].hand.letter
    BY <2>1 DEF Hand
  <2> HIDE DEF h
  <2>4. Letters(w) \subseteq Letters(w)'
    BY <2>1, <2>2, <2>3 DEF Letters, AtHand
  <2>5. QED
    BY <2>1, <2>2, <2>3, <2>4 DEF h
<1>5. ASSUME Mail(w)
      PROVE  /\ Letters(w) \ {work[w].hand.letter} \subseteq Letters(w)'
             /\ work[w].hand \in Hand /\ work'[w].hand = None
  <2>1. work'[w].hand = None /\ work'[w].letters = work[w].letters
    BY <1>1, <1>5 DEF Mail, Work
  <2>2. work[w].hand \in Hand
    BY <1>1, <1>5 DEF Mail
  <2>3. QED
    BY <2>1, <2>2 DEF Letters, AtHand
<1>6. ASSUME Kill(w)
      PROVE  Letters(w)' = {} /\ work'[w].hand = None
  BY <1>1, <1>6, NoWorkType DEF Kill, Letters, AtHand
<1>7. QED
  BY <1>2, <1>3, <1>4, <1>5, <1>6

\* The steps that do not take a letter away.
LEMMA LettersKept ==
    ASSUME TypeOK, NEW w \in Worker,
           \/ Request(w)
           \/ \E r \in work[w].rows : SaveRow(w, r)
           \/ ReadApproved(w) \/ ReadOthers(w) \/ EndRequest(w) \/ Commit(w)
           \/ \E l \in work[w].letters : ReadToken(w, l)
           \/ WriteToken(w)
    PROVE  \A v \in Worker : Letters(v) \subseteq Letters(v)'
<1>1. ASSUME NEW v \in Worker, v # w
      PROVE  Letters(v) \subseteq Letters(v)'
  <2>1. work'[v] = work[v]
    BY <1>1, OthersStay DEF WorkStep
  <2>2. QED
    BY <2>1 DEF Letters, AtHand
<1>2. Letters(w) \subseteq Letters(w)'
  BY NoLetters, LettersStep
<1>3. QED
  BY <1>1, <1>2

(* Returned updates -------------------------------------------------------------*)

\* What ReturnedTold says of one update.
IsTold(u) ==
    u \notin untold /\ Committed(u).status = "R" =>
        <<u, Committed(u).author>> \in told \/ Coming(u, Committed(u).author)

\* The same of a row a POST has written: the POST mails before it commits.
HeldIsTold(u) ==
    heldRows[u] # None /\ status[u] = "R" =>
        \/ <<u, author[u]>> \in told
        \/ \E l \in Letters(heldRows[u].by) : l.update = u /\ l.user = author[u]

AllTold == \A u \in Update : IsTold(u) /\ HeldIsTold(u)

\* ReturnedTold update by update.
LEMMA ToldOfEach == ReturnedTold <=> \A u \in Update : IsTold(u)
BY DEF ReturnedTold, IsTold

\* Someone who is mailed about an update is, or was, while no letter goes.
LEMMA ComingStays ==
    ASSUME NEW u, NEW a, Coming(u, a),
           \A w \in Worker : Letters(w) \subseteq Letters(w)'
    PROVE  Coming(u, a)'
<1>1. PICK w \in Worker : \E l \in Letters(w) : l.update = u /\ l.user = a
  BY DEF Coming, Letters
<1>2. \E l \in Letters(w)' : l.update = u /\ l.user = a
  BY <1>1
<1>3. QED
  BY <1>2 DEF Coming, Letters

\* An update of which the same is committed is no less told while no letter goes.
LEMMA CommittedTold ==
    ASSUME NEW u, IsTold(u),
           Committed(u)'.status = Committed(u).status,
           Committed(u)'.author = Committed(u).author,
           u \in untold => u \in untold',
           Committed(u).status = "R" => \A x : <<u, x>> \in told => <<u, x>> \in told',
           \A w \in Worker : Letters(w) \subseteq Letters(w)'
    PROVE  IsTold(u)'
<1>1. PICK a : a = Committed(u).author
  OBVIOUS
<1>2. SUFFICES ASSUME u \notin untold', Committed(u).status = "R"
               PROVE  <<u, a>> \in told' \/ Coming(u, a)'
  BY <1>1 DEF IsTold, Coming, AtHand
<1>3. <<u, a>> \in told \/ Coming(u, a)
  BY <1>1, <1>2 DEF IsTold
<1>4. QED
  BY <1>2, <1>3, ComingStays

\* An update whose row stays is no less told while no letter goes.
LEMMA StillTold ==
    ASSUME TypeOK, NEW u \in Update, IsTold(u), HeldIsTold(u),
           status'[u] = status[u], author'[u] = author[u], heldRows'[u] = heldRows[u],
           u \in untold => u \in untold',
           \A x : <<u, x>> \in told => <<u, x>> \in told',
           \A w \in Worker : Letters(w) \subseteq Letters(w)'
    PROVE  IsTold(u)' /\ HeldIsTold(u)'
<1>1. IsTold(u)'
  <2>1. Committed(u)'.status = Committed(u).status /\ Committed(u)'.author = Committed(u).author
    BY DEF Committed, Latest
  <2>2. QED
    BY <2>1, CommittedTold
<1>2. ASSUME heldRows[u] # None, status[u] = "R"
      PROVE  \/ <<u, author[u]>> \in told'
             \/ \E l \in Letters(heldRows[u].by)' : l.update = u /\ l.user = author'[u]
  <2>1. PICK w \in Worker : w = heldRows[u].by
    BY <1>2 DEF TypeOK, HeldRow
  <2>2. CASE <<u, author[u]>> \in told
    BY <2>2
  <2>3. CASE \E l \in Letters(w) : l.update = u /\ l.user = author[u]
    <3>1. \E l \in Letters(w)' : l.update = u /\ l.user = author'[u]
      BY <2>3
    <3>2. heldRows'[u].by = w
      BY <2>1
    <3>3. Letters(heldRows[u].by)' = Letters(w)'
      BY <3>2 DEF Letters, AtHand
    <3>4. QED
      BY <3>1, <3>3
  <2>4. QED
    BY <1>2, <2>1, <2>2, <2>3 DEF HeldIsTold
<1>3. HeldIsTold(u)'
  BY <1>2 DEF HeldIsTold
<1>4. QED
  BY <1>1, <1>3

\* A row saved with the status R has a letter to its author.
LEMMA SavedTold ==
    ASSUME NEW w \in Worker, NEW r,
           status'[r.update] = "R" => /\ author'[r.update] = r.author
                                      /\ r.status = "R"
                                      /\ work'[w].letters = ReturnLetters(r),
           heldRows'[r.update] # None => heldRows'[r.update].by = w
    PROVE  HeldIsTold(r.update)' /\ (heldRows'[r.update] = None => IsTold(r.update)')
<1> DEFINE l == [user |-> r.author, project |-> ProjectOf[r.update], update |-> r.update,
                 preview |-> FALSE]
<1>1. status'[r.update] = "R" => l \in work'[w].letters
  BY DEF ReturnLetters
<1>2. l.update = r.update /\ (status'[r.update] = "R" => l.user = author'[r.update])
  OBVIOUS
<1> HIDE DEF l
<1>3. HeldIsTold(r.update)'
  <2>1. SUFFICES ASSUME heldRows'[r.update] # None, status'[r.update] = "R"
                 PROVE  \E k \in Letters(heldRows[r.update].by)' :
                            k.update = r.update /\ k.user = author'[r.update]
    BY DEF HeldIsTold
  <2>2. heldRows'[r.update].by = w
    BY <2>1
  <2>3. l \in Letters(heldRows[r.update].by)'
    BY <1>1, <2>1, <2>2 DEF Letters
  <2>4. QED
    BY <1>2, <2>1, <2>3
<1>4. ASSUME heldRows'[r.update] = None
      PROVE  IsTold(r.update)'
  <2>1. /\ Committed(r.update)'.status = status'[r.update]
        /\ Committed(r.update)'.author = author'[r.update]
    BY <1>4 DEF Committed, Latest
  <2>2. status'[r.update] = "R" => Coming(r.update, author[r.update])'
    BY <1>1, <1>2 DEF Coming
  <2>3. QED
    BY <2>1, <2>2 DEF IsTold, Coming, AtHand
<1>5. QED
  BY <1>3, <1>4

\* A letter that goes out is told.
LEMMA MailedTold ==
    ASSUME TypeOK, AllTold, NEW w \in Worker, NEW l,
           Told(l), UNCHANGED <<rows, untold>>,
           Letters(w) \ {l} \subseteq Letters(w)',
           \A v \in Worker : v # w => Letters(v) \subseteq Letters(v)'
    PROVE  AllTold'
<1> SUFFICES ASSUME NEW u \in Update
             PROVE  IsTold(u)' /\ HeldIsTold(u)'
  BY DEF AllTold
<1>1. told \subseteq told' /\ (l.update = u => <<u, l.user>> \in told')
  BY ReviewAssumption DEF Told
<1>2. status' = status /\ author' = author /\ heldRows' = heldRows /\ untold' = untold
  BY DEF rows
<1>3. \A v \in Worker : \A k \in Letters(v) : k = l \/ k \in Letters(v)'
  OBVIOUS
<1>4. IsTold(u)'
  <2>1. PICK a : a = Committed(u).author
    OBVIOUS
  <2>2. Committed(u)'.status = Committed(u).status /\ Committed(u)'.author = a
    BY <1>2, <2>1 DEF Committed, Latest
  <2>3. SUFFICES ASSUME u \notin untold, Committed(u).status = "R"
                 PROVE  <<u, a>> \in told' \/ Coming(u, a)'
    BY <1>2, <2>2 DEF IsTold, Coming, AtHand
  <2>4. CASE <<u, a>> \in told
    BY <1>1, <2>4
  <2>5. CASE Coming(u, a)
    <3>1. PICK v \in Worker : \E k \in Letters(v) : k.update = u /\ k.user = a
      BY <2>5 DEF Coming, Letters
    <3>2. PICK k \in Letters(v) : k.update = u /\ k.user = a
      BY <3>1
    <3>3. CASE k = l
      BY <1>1, <3>2, <3>3
    <3>4. CASE k \in Letters(v)'
      BY <3>2, <3>4 DEF Coming, Letters
    <3>5. QED
      BY <1>3, <3>3, <3>4
  <2>6. QED
    BY <2>1, <2>3, <2>4, <2>5 DEF AllTold, IsTold
<1>5. HeldIsTold(u)'
  <2>1. SUFFICES ASSUME heldRows[u] # None, status[u] = "R"
                 PROVE  \/ <<u, author[u]>> \in told'
                        \/ \E k \in Letters(heldRows[u].by)' :
                               k.update = u /\ k.user = author[u]
    BY <1>2 DEF HeldIsTold
  <2>2. PICK v \in Worker : v = heldRows[u].by
    BY <2>1 DEF TypeOK, HeldRow
  <2>3. Letters(heldRows[u].by)' = Letters(v)'
    BY <1>2, <2>2 DEF Letters, AtHand
  <2>4. CASE <<u, author[u]>> \in told
    BY <1>1, <2>4
  <2>5. ASSUME NEW k \in Letters(v), k.update = u, k.user = author[u]
        PROVE  \/ <<u, author[u]>> \in told'
               \/ \E m \in Letters(v)' : m.update = u /\ m.user = author[u]
    BY <1>1, <1>3, <2>5
  <2>6. QED
    BY <2>1, <2>2, <2>3, <2>4, <2>5 DEF AllTold, HeldIsTold
<1>6. QED
  BY <1>4, <1>5

\* A new request returns no update quietly.
LEMMA RequestTold ==
    ASSUME TypeOK, AllTold, NEW w \in Worker, Request(w)
    PROVE  AllTold'
<1> USE ReviewAssumption
<1>1. /\ status \in [Update -> Status \cup {None}]
      /\ author \in [Update -> User \cup {None}]
      /\ heldRows \in [Update -> HeldRow \cup {None}]
      /\ work \in [Worker -> Work]
  BY DEF TypeOK
<1>2. \A v \in Worker : Letters(v) \subseteq Letters(v)'
  BY LettersKept
<1>3. CASE UNCHANGED <<rows, told, untold>>
  BY <1>2, <1>3, StillTold DEF rows, AllTold
<1>4. ASSUME NEW x \in User, NEW u \in Update, NEW s \in Status, CreateUpdate(w, x, u, s)
      PROVE  AllTold'
  <2> DEFINE r == [update |-> u, status |-> s, author |-> x]
             ls == ReturnLetters(r)
             held == [by |-> w, status |-> None, author |-> None]
  <2>1. /\ status' = [status EXCEPT ![u] = s] /\ author' = [author EXCEPT ![u] = x]
        /\ heldRows' = [heldRows EXCEPT ![u] = held] /\ untold' = untold
    BY <1>4 DEF CreateUpdate
  <2>2. work'[w].letters = ls
    <3>1. work'[w] = Posted(u, s, ls)
      BY <1>1, <1>4 DEF CreateUpdate, Posted
    <3>2. ls \in SUBSET Letter
      BY ReturnLettersType
    <3> HIDE DEF ls
    <3>3. QED
      BY <3>1, <3>2, PostedType
  <2>3. r.update = u /\ r.status = s /\ r.author = x
    OBVIOUS
  <2>4. held \in HeldRow /\ held.by = w /\ held.status = None
    BY DEF HeldRow
  <2>5. heldRows'[u] = held /\ held # None
    BY <1>1, <2>1, <2>4
  <2>6. HeldIsTold(u)'
    <3>1. /\ status'[r.update] = "R" => /\ author'[r.update] = r.author
                                        /\ r.status = "R"
                                        /\ work'[w].letters = ReturnLetters(r)
          /\ heldRows'[r.update] # None => heldRows'[r.update].by = w
      BY <1>1, <2>1, <2>2, <2>3, <2>4, <2>5
    <3> HIDE DEF r
    <3>2. HeldIsTold(r.update)'
      BY <3>1, SavedTold
    <3>3. QED
      BY <2>3, <3>2 DEF HeldIsTold, Letters, AtHand
  <2>7. IsTold(u)'
    <3>1. Committed(u)'.status = None
      BY <2>4, <2>5 DEF Committed
    <3>2. QED
      BY <3>1 DEF IsTold, Status
  <2>8. ASSUME NEW v \in Update, v # u
        PROVE  IsTold(v)' /\ HeldIsTold(v)'
    <3>1. status'[v] = status[v] /\ author'[v] = author[v] /\ heldRows'[v] = heldRows[v]
      BY <1>1, <2>1, <2>8
    <3>2. \A y : <<v, y>> \in told => <<v, y>> \in told'
      BY <1>4, <2>8 DEF CreateUpdate, NowReturned
    <3>3. QED
      BY <1>2, <2>1, <3>1, <3>2, StillTold DEF AllTold
  <2>9. QED
    BY <2>6, <2>7, <2>8 DEF AllTold
<1>5. ASSUME NEW x \in User, NEW u \in Update, DeleteUpdate(w, x, u)
      PROVE  AllTold'
  <2>1. /\ status' = [status EXCEPT ![u] = None] /\ author' = [author EXCEPT ![u] = None]
        /\ UNCHANGED <<told, untold, heldRows>> /\ heldRows[u] = None
    BY <1>5 DEF DeleteUpdate, history
  <2>2. IsTold(u)' /\ HeldIsTold(u)'
    <3>1. Committed(u)'.status = None
      BY <1>1, <2>1 DEF Committed, Latest
    <3>2. QED
      BY <2>1, <3>1 DEF IsTold, HeldIsTold, Status
  <2>3. ASSUME NEW v \in Update, v # u
        PROVE  IsTold(v)' /\ HeldIsTold(v)'
    BY <1>1, <1>2, <2>1, <2>3, StillTold DEF AllTold
  <2>4. QED
    BY <2>2, <2>3 DEF AllTold
<1>6. ASSUME NEW us, us \subseteq Update, NEW s \in Status, SetUpdatesStatus(w, us, s)
      PROVE  AllTold'
  <2>1. ASSUME NEW u \in us
        PROVE  IsTold(u)' /\ HeldIsTold(u)'
    <3>1. status'[u] = s /\ (s = "R" => u \in untold') /\ heldRows'[u] = None
      BY <1>6 DEF SetUpdatesStatus
    <3>2. Committed(u)'.status = s
      BY <3>1 DEF Committed, Latest
    <3>3. QED
      BY <3>1, <3>2 DEF IsTold, HeldIsTold
  <2>2. ASSUME NEW v \in Update, v \notin us
        PROVE  IsTold(v)' /\ HeldIsTold(v)'
    <3>1. status'[v] = status[v] /\ author'[v] = author[v] /\ heldRows'[v] = heldRows[v]
      BY <1>6, <2>2 DEF SetUpdatesStatus
    <3>2. (v \in untold => v \in untold') /\ told' = told
      BY <1>6, <2>2 DEF SetUpdatesStatus
    <3>3. QED
      BY <1>2, <3>1, <3>2, StillTold DEF AllTold
  <2>3. QED
    BY <1>6, <2>1, <2>2 DEF AllTold
<1>7. QED
  <2>1. ASSUME NEW x \in User, NEW u \in Update, NEW asked,
               OpenUpdate(w, x, u, asked) \/ DeleteFile(w, x, u)
        PROVE  UNCHANGED <<rows, told, untold>>
    BY <2>1 DEF OpenUpdate, DeleteFile, history
  <2>2. ASSUME NEW p, NEW xs, NEW preview,
               AssignIndicators(w, p, xs) \/ SendAssignments(w, p, xs, preview)
        PROVE  UNCHANGED <<rows, told, untold>>
    BY <2>2 DEF AssignIndicators, SendAssignments, history
  <2>3. QED
    BY <1>3, <1>4, <1>5, <1>6, <2>1, <2>2 DEF Request

\* A saved row that is returned has its author mailed.
LEMMA SaveTold ==
    ASSUME TypeOK, AllTold, NEW w \in Worker, NEW r \in work[w].rows, SaveRow(w, r)
    PROVE  AllTold'
<1> USE ReviewAssumption
<1>1. /\ status \in [Update -> Status \cup {None}]
      /\ author \in [Update -> User \cup {None}]
      /\ heldRows \in [Update -> HeldRow \cup {None}]
      /\ work \in [Worker -> Work] /\ work[w] \in Work
      /\ r.update \in Update /\ r.author \in User /\ r.status \in Status
      /\ ReturnLetters(r) \in SUBSET Letter
  <2>1. r \in Row
    BY DEF TypeOK, Work
  <2>2. QED
    BY <2>1, ReturnLettersType DEF TypeOK, Row
<1>2. \A v \in Worker : Letters(v) \subseteq Letters(v)'
  BY LettersKept
<1>3. ASSUME NEW v \in Update, v # r.update
      PROVE  IsTold(v)' /\ HeldIsTold(v)'
  <2>1. /\ status'[v] = status[v] /\ author'[v] = author[v]
        /\ v \in untold => v \in untold'
    BY <1>1, <1>3 DEF SaveRow, SaveWhole, SaveUser, rows
  <2>2. heldRows'[v] = heldRows[v]
    BY <1>1, <1>3 DEF SaveRow, SaveWhole, SaveUser, rows
  <2>3. \A y : <<v, y>> \in told => <<v, y>> \in told'
    BY <1>1, <1>3 DEF SaveRow, SaveWhole, SaveUser, NowReturned
  <2>4. QED
    BY <1>2, <2>1, <2>2, <2>3, StillTold DEF AllTold
<1> DEFINE i == After(r.update, r.status, ReturnLetters(r))
<1>4. i.letters = ReturnLetters(r)
  BY <1>1, AfterType
<1>5. CASE r.whole
  <2>1. status'[r.update] = r.status /\ author'[r.update] = r.author
    BY <1>1, <1>5 DEF SaveRow, SaveWhole
  <2>2. work'[w].letters = ReturnLetters(r)
    <3>1. CASE work[w].phase = "request"
      <4>1. work'[w] = i
        BY <1>1, <1>5, <3>1 DEF SaveRow, SaveWhole, After
      <4> HIDE DEF i
      <4>2. QED
        BY <1>4, <4>1
    <3>2. CASE work[w].phase # "request"
      <4>1. work'[w] = [work[w] EXCEPT !.rows = work[w].rows \ {r},
                                       !.letters = ReturnLetters(r)]
        BY <1>1, <1>5, <3>2 DEF SaveRow, SaveWhole
      <4>2. QED
        BY <1>1, <4>1 DEF Work
    <3>3. QED
      BY <3>1, <3>2
  <2> DEFINE held == [by |-> w, status |-> status[r.update], author |-> author[r.update]]
  <2>3. /\ heldRows[r.update] # None => /\ heldRows[r.update].by = w
                                        /\ heldRows'[r.update] = heldRows[r.update]
        /\ heldRows[r.update] = None =>
              heldRows'[r.update] = None \/ heldRows'[r.update] = held
    BY <1>1, <1>5 DEF SaveRow, SaveWhole, Free
  <2>4. held.by = w /\ held.status = status[r.update] /\ held.author = author[r.update]
    OBVIOUS
  <2> HIDE DEF held
  <2>5. /\ HeldIsTold(r.update)'
        /\ heldRows'[r.update] = None => IsTold(r.update)'
    <3>1. heldRows'[r.update] # None => heldRows'[r.update].by = w
      BY <2>3, <2>4
    <3>2. QED
      BY <2>1, <2>2, <3>1, SavedTold
  <2>6. CASE heldRows'[r.update] # None
    <3>1. /\ Committed(r.update)'.status = Committed(r.update).status
          /\ Committed(r.update)'.author = Committed(r.update).author
      BY <2>3, <2>4, <2>6 DEF Committed, Latest
    <3>2. /\ untold' = untold
          /\ Committed(r.update).status = "R" => told' = told
      BY <1>5, <2>6 DEF SaveRow, SaveWhole
    <3>3. IsTold(r.update)'
      BY <1>1, <1>2, <3>1, <3>2, CommittedTold DEF AllTold
    <3>4. QED
      BY <1>3, <2>5, <3>3 DEF AllTold
  <2>7. QED
    BY <1>3, <2>5, <2>6 DEF AllTold
<1>6. CASE ~r.whole /\ status[r.update] # None
  <2>1. /\ status' = status /\ author'[r.update] = r.author
        /\ heldRows'[r.update] = None
        /\ status[r.update] = "R" /\ r.status # "R" => r.update \in untold'
    BY <1>1, <1>6 DEF SaveRow, SaveUser
  <2>2. work'[w].letters = ReturnLetters(r)
    <3>1. work'[w] = i
      BY <1>1, <1>6 DEF SaveRow, SaveUser, After
    <3> HIDE DEF i
    <3>2. QED
      BY <1>4, <3>1
  <2>3. HeldIsTold(r.update)'
    BY <2>1 DEF HeldIsTold
  <2>4. CASE r.status = "R"
    <3>1. IsTold(r.update)'
      BY <2>1, <2>2, <2>4, SavedTold
    <3>2. QED
      BY <1>3, <2>3, <3>1 DEF AllTold
  <2>5. CASE r.status # "R"
    <3>1. Committed(r.update)'.status = status[r.update]
      BY <2>1 DEF Committed, Latest
    <3>2. IsTold(r.update)'
      BY <2>1, <2>5, <3>1 DEF IsTold
    <3>3. QED
      BY <1>3, <2>3, <3>2 DEF AllTold
  <2>6. QED
    BY <2>4, <2>5
<1>7. CASE ~r.whole /\ status[r.update] = None
  <2>1. UNCHANGED <<rows, told, untold>>
    BY <1>7 DEF SaveRow
  <2>2. QED
    BY <1>2, <2>1, StillTold DEF rows, AllTold
<1>8. QED
  BY <1>5, <1>6, <1>7

\* What a killed worker had to mail is counted as untold; of a POST that is killed
\* nothing was committed.
LEMMA KillTold ==
    ASSUME TypeOK, AllTold, NEW w \in Worker, Kill(w)
    PROVE  AllTold'
<1> SUFFICES ASSUME NEW u \in Update
             PROVE  IsTold(u)' /\ HeldIsTold(u)'
  BY DEF AllTold
<1>1. /\ told' = told /\ untold \subseteq untold' /\ Rollback(w) /\ Release(w)
  BY DEF Kill, Rollback
<1>2. /\ heldRows \in [Update -> HeldRow \cup {None}]
      /\ status \in [Update -> Status \cup {None}] /\ author \in [Update -> User \cup {None}]
  BY DEF TypeOK
<1>3. \A v \in Worker : v # w => Letters(v)' = Letters(v)
  BY OthersStay DEF Letters, AtHand
<1>4. PICK a : a = Committed(u).author
  OBVIOUS
<1>5. Committed(u)'.status = Committed(u).status /\ Committed(u)'.author = a
  <2>1. CASE u \in HeldUpdates(w)
    <3>1. /\ heldRows'[u] = None
          /\ status'[u] = Committed(u).status /\ author'[u] = Committed(u).author
      BY <1>1, <2>1 DEF Rollback, Release
    <3>2. QED
      BY <1>4, <3>1 DEF Committed, Latest
  <2>2. CASE u \notin HeldUpdates(w)
    <3>1. heldRows'[u] = heldRows[u] /\ status'[u] = status[u] /\ author'[u] = author[u]
      BY <1>1, <2>2 DEF Rollback, Release
    <3>2. QED
      BY <1>4, <3>1 DEF Committed, Latest
  <2>3. QED
    BY <2>1, <2>2
<1>6. IsTold(u)'
  <2>1. SUFFICES ASSUME u \notin untold', Committed(u).status = "R"
                 PROVE  <<u, a>> \in told \/ Coming(u, a)'
    BY <1>1, <1>5 DEF IsTold, Coming, AtHand
  <2>2. CASE Coming(u, a)
    <3>1. PICK v \in Worker : \E k \in Letters(v) : k.update = u /\ k.user = a
      BY <2>2 DEF Coming, Letters
    <3>2. v # w
      BY <2>1, <3>1 DEF Kill, Letters, AtHand
    <3>3. \E k \in Letters(v)' : k.update = u /\ k.user = a
      BY <1>3, <3>1, <3>2
    <3>4. QED
      BY <3>3 DEF Coming, Letters
  <2>3. QED
    BY <1>1, <1>4, <2>1, <2>2 DEF AllTold, IsTold
<1>7. HeldIsTold(u)'
  <2>1. SUFFICES ASSUME heldRows'[u] # None, status'[u] = "R"
                 PROVE  \/ <<u, author'[u]>> \in told
                        \/ \E k \in Letters(heldRows[u].by)' :
                               k.update = u /\ k.user = author'[u]
    BY <1>1 DEF HeldIsTold
  <2>2. /\ u \notin HeldUpdates(w) /\ heldRows'[u] = heldRows[u]
        /\ status'[u] = status[u] /\ author'[u] = author[u]
    BY <1>1, <2>1 DEF Rollback, Release
  <2>3. PICK v \in Worker : v = heldRows[u].by /\ v # w
    BY <1>2, <2>1, <2>2 DEF HeldUpdates, HeldRow
  <2>4. Letters(heldRows[u].by)' = Letters(v)
    BY <1>3, <2>2, <2>3 DEF Letters, AtHand
  <2>5. QED
    BY <2>1, <2>2, <2>3, <2>4 DEF AllTold, HeldIsTold
<1>8. QED
  BY <1>6, <1>7

\* A POST commits once it has mailed.
LEMMA CommitTold ==
    ASSUME TypeOK, AllTold, NEW w \in Worker, Commit(w)
    PROVE  AllTold'
<1> SUFFICES ASSUME NEW u \in Update
             PROVE  IsTold(u)' /\ HeldIsTold(u)'
  BY DEF AllTold
<1>1. /\ told' = told /\ untold' = untold \ HeldUpdates(w) /\ Release(w)
      /\ status' = status /\ author' = author
  BY DEF Commit
<1>2. \A v \in Worker : Letters(v) \subseteq Letters(v)'
  BY LettersKept
<1>3. CASE u \notin HeldUpdates(w)
  <2>1. heldRows'[u] = heldRows[u]
    BY <1>1, <1>3 DEF Release
  <2>2. QED
    BY <1>1, <1>2, <1>3, <2>1, StillTold DEF AllTold
<1>4. CASE u \in HeldUpdates(w)
  <2>1. heldRows'[u] = None /\ heldRows[u] # None /\ heldRows[u].by = w
    BY <1>1, <1>4 DEF Release, HeldUpdates
  <2>2. Letters(w) = {}
    BY DEF Commit, Saving, Letters, AtHand
  <2>3. status[u] = "R" => <<u, author[u]>> \in told
    BY <2>1, <2>2 DEF AllTold, HeldIsTold
  <2>4. Committed(u)'.status = status[u] /\ Committed(u)'.author = author[u]
    BY <1>1, <2>1 DEF Committed, Latest
  <2>5. QED
    BY <1>1, <2>1, <2>3, <2>4 DEF IsTold, HeldIsTold
<1>5. QED
  BY <1>3, <1>4

\* No step returns an update, or makes someone its author, quietly.
LEMMA ReturnedStep == TypeOK /\ AllTold /\ [Next]_vars => AllTold'
<1> SUFFICES ASSUME TypeOK, AllTold, [Next]_vars
             PROVE  AllTold'
  OBVIOUS
<1>1. ASSUME NEW w \in Worker, Request(w)
      PROVE  AllTold'
  BY <1>1, RequestTold
<1>2. ASSUME NEW w \in Worker, NEW r \in work[w].rows, SaveRow(w, r)
      PROVE  AllTold'
  BY <1>2, SaveTold
<1>3. ASSUME NEW w \in Worker,
             \/ ReadApproved(w) \/ ReadOthers(w) \/ EndRequest(w)
             \/ \E l \in work[w].letters : ReadToken(w, l)
             \/ WriteToken(w)
      PROVE  AllTold'
  <2>1. UNCHANGED <<rows, told, untold>>
    BY <1>3 DEF ReadApproved, ReadOthers, EndRequest, ReadToken, WriteToken, history
  <2>2. \A v \in Worker : Letters(v) \subseteq Letters(v)'
    BY <1>3, LettersKept
  <2>3. QED
    BY <2>1, <2>2, StillTold DEF rows, AllTold
<1>4. ASSUME NEW w \in Worker, NEW l \in work[w].letters, MailWithoutLink(w, l)
      PROVE  AllTold'
  <2>1. Told(l) /\ UNCHANGED <<rows, untold>>
    BY <1>4 DEF MailWithoutLink
  <2>2. Letters(w) \ {l} \subseteq Letters(w)'
    BY <1>4, LettersStep
  <2>3. \A v \in Worker : v # w => Letters(v) \subseteq Letters(v)'
    BY <1>4, OthersStay DEF WorkStep, Letters, AtHand
  <2>4. QED
    BY <2>1, <2>2, <2>3, MailedTold
<1>5. ASSUME NEW w \in Worker, Mail(w)
      PROVE  AllTold'
  <2>1. Told(work[w].hand.letter) /\ UNCHANGED <<rows, untold>>
    BY <1>5 DEF Mail
  <2>2. Letters(w) \ {work[w].hand.letter} \subseteq Letters(w)'
    BY <1>5, LettersStep
  <2>3. \A v \in Worker : v # w => Letters(v) \subseteq Letters(v)'
    BY <1>5, OthersStay DEF WorkStep, Letters, AtHand
  <2>4. QED
    BY <2>1, <2>2, <2>3, MailedTold
<1>6. ASSUME NEW w \in Worker, Kill(w)
      PROVE  AllTold'
  BY <1>6, KillTold
<1>7. ASSUME NEW w \in Worker, Commit(w)
      PROVE  AllTold'
  BY <1>7, CommitTold
<1>8. CASE UNCHANGED vars
  <2>1. UNCHANGED <<rows, told, untold, work>>
    BY <1>8 DEF vars, history
  <2>2. \A v \in Worker : Letters(v) \subseteq Letters(v)'
    BY <2>1 DEF Letters, AtHand
  <2>3. QED
    BY <2>1, <2>2, StillTold DEF rows, AllTold
<1>9. QED
  BY <1>1, <1>2, <1>3, <1>4, <1>5, <1>6, <1>7, <1>8 DEF Next, WorkStep

\* Whoever saves which copy of an update when, in a POST or not: what is committed
\* is returned only if its present author was mailed since, or is about to be, but
\* for the paths that mail nobody.
THEOREM ReturnedInvariant == Spec => []ReturnedTold
<1>1. Init => AllTold
  <2> SUFFICES ASSUME Init, NEW u \in Update
               PROVE  IsTold(u) /\ HeldIsTold(u)
    BY DEF AllTold
  <2>1. heldRows[u] = None /\ Committed(u).status = None
    BY DEF Init, Committed, Latest
  <2>2. QED
    BY <2>1, ReviewAssumption DEF IsTold, HeldIsTold, Status
<1>2. TypeOK /\ AllTold /\ [Next]_vars => AllTold'
  BY ReturnedStep
<1>3. AllTold => ReturnedTold
  BY ToldOfEach DEF AllTold
<1>4. QED
  BY <1>1, <1>2, <1>3, ReviewTypes, PTL DEF Spec

(* Dates shown ------------------------------------------------------------------*)

\* A link for the project was mailed to the user, or is about to be, or the mail
\* failed.  ShownIsMailed counts a preview at hand too, which comes to an end
\* without a mail: a date must not rest on one.
Justified(x, p) ==
    \/ <<x, p>> \in mailed \cup unmailed
    \/ \E w \in Worker : \E l \in AtHand(w) : ~l.preview /\ l.user = x /\ l.project = p

\* The dates of the tokens, and those a worker has read and may write back.
TokensJustified == \A t \in DOMAIN tokens : \A p \in tokens[t].sent : Justified(tokens[t].user, p)
HandsJustified ==
    \A w \in Worker : work[w].hand # None =>
        \A p \in work[w].hand.sent : Justified(work[w].hand.letter.user, p)
HeldJustified ==
    \A t \in DOMAIN tokens : heldTokens[t] # None =>
        \A p \in heldTokens[t].sent : Justified(heldTokens[t].user, p)

\* What is justified stays so if whoever is about to mail goes on with the letter,
\* or it counts as mailed or unmailed.
LEMMA StaysJustified ==
    ASSUME NEW x, NEW p, Justified(x, p),
           mailed \subseteq mailed', unmailed \subseteq unmailed',
           \A w \in Worker : \A l \in AtHand(w) : ~l.preview =>
               l \in AtHand(w)' \/ <<l.user, l.project>> \in mailed' \cup unmailed'
    PROVE  Justified(x, p)'
<1>1. CASE <<x, p>> \in mailed \cup unmailed
  BY <1>1 DEF Justified
<1>2. CASE \E w \in Worker : \E l \in AtHand(w) : ~l.preview /\ l.user = x /\ l.project = p
  <2>1. PICK w \in Worker : \E l \in AtHand(w) : ~l.preview /\ l.user = x /\ l.project = p
    BY <1>2
  <2>2. PICK l \in AtHand(w) : ~l.preview /\ l.user = x /\ l.project = p
    BY <2>1
  <2>3. CASE l \in AtHand(w)'
    BY <2>2, <2>3 DEF Justified
  <2>4. CASE <<x, p>> \in mailed' \cup unmailed'
    BY <2>4 DEF Justified
  <2>5. QED
    BY <2>2, <2>3, <2>4
<1>3. QED
  BY <1>1, <1>2 DEF Justified

\* The steps other than of a worker with a letter at hand.
HandStep(w) == (\E l \in work[w].letters : ReadToken(w, l)) \/ WriteToken(w) \/ Mail(w) \/ Kill(w)

\* Steps of requests do not touch tokens, hands or mails.
LEMMA OtherSteps ==
    ASSUME TypeOK, NEW w \in Worker, Request(w) \/ WorkStep(w), ~HandStep(w)
    PROVE  /\ work[w].hand = None /\ work'[w].hand = None
           /\ UNCHANGED <<tokens, mailed, letters, unmailed, overlapped, undone>>
           /\ \A t \in DOMAIN tokens : heldTokens'[t] # None => heldTokens'[t] = heldTokens[t]
<1>1. CASE \E l \in work[w].letters : MailWithoutLink(w, l)
  BY <1>1, LettersStep DEF MailWithoutLink, issued
<1>2. CASE ~ \E l \in work[w].letters : MailWithoutLink(w, l)
  <2>1. /\ work[w].hand = None /\ work'[w].hand = None
        /\ UNCHANGED <<tokens, mailed, letters, unmailed, overlapped, undone>>
    BY <1>2, NoLetters DEF WorkStep, HandStep
  <2>2. heldTokens' = heldTokens \/ Release(w)
    <3>1. CASE Request(w)
      BY <3>1 DEF Request, CreateUpdate, OpenUpdate, DeleteFile, DeleteUpdate,
         SetUpdatesStatus, AssignIndicators, SendAssignments, issued
    <3>2. CASE WorkStep(w)
      BY <1>2, <3>2 DEF WorkStep, HandStep, SaveRow, ReadApproved, ReadOthers, EndRequest,
         Commit, issued
    <3>3. QED
      BY <3>1, <3>2
  <2>3. QED
    BY <2>1, <2>2 DEF Release
<1>3. QED
  BY <1>1, <1>2

\* What a date is justified by is not taken back.
LEMMA JustifiedSteps ==
    ASSUME TypeOK, NEW w \in Worker, Request(w) \/ WorkStep(w) \/ Kill(w),
           NEW x, NEW p, Justified(x, p)
    PROVE  Justified(x, p)'
<1>1. \A v \in Worker : v # w => AtHand(v)' = AtHand(v)
  BY OthersStay DEF AtHand
<1>2. /\ mailed \subseteq mailed' /\ unmailed \subseteq unmailed'
      /\ \A l \in AtHand(w) : ~l.preview =>
            l \in AtHand(w)' \/ <<l.user, l.project>> \in mailed' \cup unmailed'
  <2>1. CASE ~HandStep(w)
    BY <2>1, OtherSteps DEF AtHand, HandStep
  <2>2. CASE \E l \in work[w].letters : ReadToken(w, l)
    BY <2>2 DEF ReadToken, AtHand
  <2>3. CASE WriteToken(w)
    <3>1. work[w].hand \in Hand /\ work'[w].hand = [work[w].hand EXCEPT !.written = TRUE]
      BY <2>3, LettersStep
    <3>2. work'[w].hand.letter = work[w].hand.letter /\ work'[w].hand # None
      BY <2>3, <3>1, LettersStep, ReviewAssumption DEF Hand
    <3>3. UNCHANGED <<mailed, unmailed>>
      BY <2>3 DEF WriteToken
    <3>4. QED
      BY <3>2, <3>3 DEF AtHand
  <2>4. CASE Mail(w)
    BY <2>4 DEF Mail, AtHand
  <2>5. CASE Kill(w)
    BY <2>5 DEF Kill, AtHand
  <2>6. QED
    BY <2>1, <2>2, <2>3, <2>4, <2>5 DEF HandStep
<1>3. QED
  BY <1>1, <1>2, StaysJustified

\* Writing a token changes no other; a new one is the last; what is held of it is
\* what it was.
LEMMA TokensWritten ==
    ASSUME TypeOK, NEW w \in Worker, WriteToken(w), NEW t \in DOMAIN tokens'
    PROVE  /\ \/ t \in DOMAIN tokens /\ tokens'[t] = tokens[t]
              \/ tokens'[t] = TokenAtHand(work[w].hand)
           /\ heldTokens'[t] # None =>
                 \/ t \in DOMAIN tokens /\ heldTokens'[t] = heldTokens[t]
                 \/ /\ t \in DOMAIN tokens /\ t = work[w].hand.token
                    /\ heldTokens'[t].by = w /\ heldTokens'[t].user = tokens[t].user
                    /\ heldTokens'[t].sent = tokens[t].sent
                 \/ /\ t \notin DOMAIN tokens
                    /\ heldTokens'[t].user = None /\ heldTokens'[t].sent = {}
<1> DEFINE h == work[w].hand
           new == TokenAtHand(h)
<1>1. tokens \in Seq(Token) /\ new \in Token /\ h.token \in 0 .. Len(tokens)
      /\ heldTokens \in Seq(HeldToken \cup {None}) /\ Len(heldTokens) = Len(tokens)
  <2>1. h \in Hand
    BY LettersStep
  <2>2. QED
    BY <2>1, TokenAtHandType DEF TypeOK, WriteToken
<1> HIDE DEF new
<1>2. CASE ~Changes(h)
  BY <1>1, <1>2 DEF WriteToken, issued
<1>3. CASE Changes(h) /\ h.token = 0
  <2> DEFINE gap == [by |-> w, user |-> None, uses |-> 0, sent |-> {}]
  <2>1. /\ tokens' = Append(tokens, new)
        /\ heldTokens' = Append(heldTokens, gap) \/ heldTokens' = Append(heldTokens, None)
    BY <1>3 DEF WriteToken, IssueToken, new
  <2>2. gap.user = None /\ gap.sent = {}
    OBVIOUS
  <2> HIDE DEF gap, h
  <2>3. CASE t \in DOMAIN tokens
    BY <1>1, <2>1, <2>3
  <2>4. CASE t \notin DOMAIN tokens
    <3>1. t = Len(tokens) + 1 /\ t = Len(heldTokens) + 1
      BY <1>1, <2>1, <2>4
    <3>2. tokens'[t] = new /\ (heldTokens'[t] = gap \/ heldTokens'[t] = None)
      BY <1>1, <2>1, <3>1
    <3>3. QED
      BY <2>2, <2>4, <3>2 DEF new, h
  <2>5. QED
    BY <2>3, <2>4
<1>4. CASE Changes(h) /\ h.token # 0
  <2> DEFINE held == [by |-> w, user |-> tokens[h.token].user, uses |-> tokens[h.token].uses,
                      sent |-> tokens[h.token].sent]
  <2>1. /\ tokens' = [tokens EXCEPT ![h.token] = new]
        /\ heldTokens' = [heldTokens EXCEPT ![h.token] = held] \/ heldTokens' = heldTokens
    BY <1>4 DEF WriteToken, SaveToken, new
  <2>2. /\ held.by = w /\ held.user = tokens[h.token].user
        /\ held.sent = tokens[h.token].sent
    OBVIOUS
  <2> HIDE DEF held, h
  <2>3. t \in DOMAIN tokens /\ h.token \in DOMAIN tokens /\ h.token \in DOMAIN heldTokens
        /\ t \in DOMAIN heldTokens
    BY <1>1, <1>4, <2>1
  <2>4. CASE t = h.token
    BY <1>1, <2>1, <2>2, <2>3, <2>4 DEF new, h
  <2>5. CASE t # h.token
    BY <1>1, <2>1, <2>3, <2>5
  <2>6. QED
    BY <2>4, <2>5
<1>5. QED
  BY <1>2, <1>3, <1>4

\* What a killed POST leaves of tokens.
LEMMA TokensTakenBack ==
    ASSUME TypeOK, NEW w \in Worker, Kill(w)
    PROVE  /\ DOMAIN tokens' = DOMAIN tokens
           /\ \A t \in DOMAIN tokens :
                 IF t \in HeldKeys(w)
                 THEN /\ heldTokens[t] # None /\ heldTokens'[t] = None
                      /\ tokens'[t].user = heldTokens[t].user
                      /\ tokens'[t].sent = heldTokens[t].sent
                 ELSE tokens'[t] = tokens[t] /\ heldTokens'[t] = heldTokens[t]
<1>1. Rollback(w) /\ Release(w)
  BY DEF Kill, Rollback
<1>2. DOMAIN tokens' = DOMAIN tokens
  BY <1>1 DEF Rollback
<1>3. ASSUME NEW t \in DOMAIN tokens, t \in HeldKeys(w)
      PROVE  /\ heldTokens[t] # None /\ heldTokens'[t] = None
             /\ tokens'[t].user = heldTokens[t].user
             /\ tokens'[t].sent = heldTokens[t].sent
  BY <1>1, <1>3 DEF Rollback, Release, HeldKeys
<1>4. ASSUME NEW t \in DOMAIN tokens, t \notin HeldKeys(w)
      PROVE  tokens'[t] = tokens[t] /\ heldTokens'[t] = heldTokens[t]
  BY <1>1, <1>4 DEF Rollback, Release
<1>5. QED
  BY <1>2, <1>3, <1>4

\* No step writes a date that is not justified.
LEMMA ShownStep ==
    TypeOK /\ TokensJustified /\ HandsJustified /\ HeldJustified /\ [Next]_vars
        => TokensJustified' /\ HandsJustified' /\ HeldJustified'
<1> SUFFICES ASSUME TypeOK, TokensJustified, HandsJustified, HeldJustified, [Next]_vars
             PROVE  TokensJustified' /\ HandsJustified' /\ HeldJustified'
  OBVIOUS
<1> USE ReviewAssumption
<1>1. CASE UNCHANGED vars
  BY <1>1 DEF vars, history, issued, TokensJustified, HandsJustified, HeldJustified,
     Justified, AtHand
<1>2. ASSUME NEW w \in Worker, Request(w) \/ WorkStep(w) \/ Kill(w)
      PROVE  TokensJustified' /\ HandsJustified' /\ HeldJustified'
  <2>1. \A x, p : Justified(x, p) => Justified(x, p)'
    BY <1>2, JustifiedSteps
  <2>2. \A v \in Worker : v # w => work'[v] = work[v]
    BY <1>2, OthersStay
  <2>3. ASSUME UNCHANGED tokens,
               \A t \in DOMAIN tokens : heldTokens'[t] # None => heldTokens'[t] = heldTokens[t]
        PROVE  TokensJustified' /\ HeldJustified'
    <3>1. TokensJustified'
      BY <2>1, <2>3 DEF TokensJustified
    <3>2. ASSUME NEW t \in DOMAIN tokens', heldTokens'[t] # None, NEW p \in heldTokens'[t].sent
          PROVE  Justified(heldTokens[t].user, p)'
      <4>1. PICK y : y = heldTokens[t].user
        OBVIOUS
      <4>2. Justified(y, p) /\ heldTokens'[t].user = y
        BY <2>3, <3>2, <4>1 DEF HeldJustified
      <4>3. Justified(y, p)'
        BY <2>1, <4>2
      <4>4. QED
        BY <4>2, <4>3
    <3>3. QED
      BY <3>1, <3>2 DEF HeldJustified
  <2>4. ASSUME work'[w].hand # None =>
                   \A p \in work'[w].hand.sent : Justified(work[w].hand.letter.user, p)'
        PROVE  HandsJustified'
    <3>1. ASSUME NEW v \in Worker, v # w, work'[v].hand # None, NEW p \in work'[v].hand.sent
          PROVE  Justified(work[v].hand.letter.user, p)'
      <4>1. Justified(work[v].hand.letter.user, p)
        BY <2>2, <3>1 DEF HandsJustified
      <4> DEFINE x == work[v].hand.letter.user
      <4>2. x' = x
        BY <2>2, <3>1
      <4>3. QED
        BY <2>1, <4>1, <4>2
    <3>2. QED
      BY <2>4, <3>1 DEF HandsJustified
  <2>5. CASE (Request(w) \/ WorkStep(w)) /\ ~HandStep(w)
    <3>1. /\ work'[w].hand = None /\ UNCHANGED tokens
          /\ \A t \in DOMAIN tokens : heldTokens'[t] # None => heldTokens'[t] = heldTokens[t]
      BY <2>5, OtherSteps
    <3>2. QED
      BY <2>3, <2>4, <3>1
  <2>6. ASSUME NEW l \in work[w].letters, ReadToken(w, l)
        PROVE  TokensJustified' /\ HandsJustified' /\ HeldJustified'
    <3>1. UNCHANGED <<tokens, heldTokens>>
      BY <2>6 DEF ReadToken, issued
    <3>2. /\ work'[w].hand = HandOf(w, l) /\ HandOf(w, l).letter = l /\ l \in Letter
          /\ SeenOf(w, l.user) = {} => HandOf(w, l).sent = {}
          /\ SeenOf(w, l.user) # {} =>
                /\ HandOf(w, l).token \in SeenOf(w, l.user)
                /\ HandOf(w, l).sent = SeenToken(w, HandOf(w, l).token).sent
      <4>1. IssuedOK
        BY TypeParts
      <4>2. work'[w].hand = HandOf(w, l) /\ l \in Letter
        BY <2>6, LettersStep
      <4>3. QED
        BY <4>1, <4>2, HandOfType
    <3>3. ASSUME NEW p \in work'[w].hand.sent
          PROVE  Justified(l.user, p)
      <4>1. PICK t \in DOMAIN tokens : SeenToken(w, t).user = l.user /\ p \in SeenToken(w, t).sent
        BY <3>2, <3>3 DEF SeenOf
      <4>2. CASE SeenToken(w, t) = tokens[t]
        BY <4>1, <4>2 DEF TokensJustified
      <4>3. CASE heldTokens[t] # None /\ SeenToken(w, t) = heldTokens[t]
        BY <4>1, <4>3 DEF HeldJustified
      <4>4. QED
        BY <4>2, <4>3 DEF SeenToken
    <3>4. work'[w].hand.letter.user = l.user
      BY <3>2
    <3>5. HandsJustified'
      BY <2>1, <2>4, <3>3, <3>4
    <3>6. QED
      BY <2>3, <3>1, <3>5
  <2>7. CASE WriteToken(w)
    <3> DEFINE h == work[w].hand
               x == work[w].hand.letter.user
    <3>1. /\ h \in Hand /\ work'[w].hand = [h EXCEPT !.written = TRUE]
          /\ h # None /\ work'[w].hand # None
      BY <2>7, LettersStep
    <3>2. x' = x /\ work'[w].hand.sent = h.sent /\ work'[w].hand.letter = h.letter
      BY <3>1 DEF Hand
    <3>3. \A p \in h.sent : Justified(x, p)
      BY <3>1 DEF HandsJustified
    <3>4. ~h.letter.preview => Justified(x, h.letter.project)
      BY <3>1 DEF Justified, AtHand
    <3>5. HandsJustified'
      BY <2>1, <2>4, <3>2, <3>3
    <3>6. ASSUME NEW t \in DOMAIN tokens', NEW p \in tokens'[t].sent
          PROVE  Justified(tokens[t].user, p)'
      <4>1. PICK y : y = tokens'[t].user
        OBVIOUS
      <4>2. Justified(y, p)
        <5>1. CASE t \in DOMAIN tokens /\ tokens'[t] = tokens[t]
          BY <3>6, <4>1, <5>1 DEF TokensJustified
        <5>2. CASE tokens'[t] = TokenAtHand(h)
          BY <3>3, <3>4, <3>6, <4>1, <5>2 DEF TokenAtHand
        <5>3. QED
          BY <2>7, <5>1, <5>2, TokensWritten
      <4>3. Justified(y, p)'
        BY <2>1, <4>2
      <4>4. QED
        BY <4>1, <4>3
    <3>7. ASSUME NEW t \in DOMAIN tokens', heldTokens'[t] # None, NEW p \in heldTokens'[t].sent
          PROVE  Justified(heldTokens[t].user, p)'
      <4>1. PICK y : y = heldTokens'[t].user
        OBVIOUS
      <4>2. Justified(y, p)
        <5>1. CASE t \in DOMAIN tokens /\ heldTokens'[t] = heldTokens[t]
          BY <3>7, <4>1, <5>1 DEF HeldJustified
        <5>2. CASE /\ t \in DOMAIN tokens
                   /\ heldTokens'[t].user = tokens[t].user
                   /\ heldTokens'[t].sent = tokens[t].sent
          BY <3>7, <4>1, <5>2 DEF TokensJustified
        <5>3. QED
          BY <2>7, <3>7, <5>1, <5>2, TokensWritten
      <4>3. Justified(y, p)'
        BY <2>1, <4>2
      <4>4. QED
        BY <4>1, <4>3
    <3>8. QED
      BY <3>5, <3>6, <3>7 DEF TokensJustified, HeldJustified
  <2>8. CASE Mail(w)
    <3>1. UNCHANGED <<tokens, heldTokens>> /\ work'[w].hand = None
      BY <2>8, LettersStep DEF Mail, issued
    <3>2. QED
      BY <2>3, <2>4, <3>1
  <2>9. CASE Kill(w)
    <3>1. work'[w].hand = None
      BY <2>9, LettersStep
    <3>2. HandsJustified'
      BY <2>4, <3>1
    <3>3. ASSUME NEW t \in DOMAIN tokens', NEW p \in tokens'[t].sent
          PROVE  Justified(tokens[t].user, p)'
      <4>1. PICK y : y = tokens'[t].user
        OBVIOUS
      <4>2. Justified(y, p)
        <5>1. CASE t \in HeldKeys(w)
          <6>1. /\ t \in DOMAIN tokens /\ heldTokens[t] # None
                /\ tokens'[t].user = heldTokens[t].user /\ tokens'[t].sent = heldTokens[t].sent
            BY <2>9, <3>3, <5>1, TokensTakenBack
          <6>2. QED
            BY <3>3, <4>1, <6>1 DEF HeldJustified
        <5>2. CASE t \notin HeldKeys(w)
          <6>1. t \in DOMAIN tokens /\ tokens'[t] = tokens[t]
            BY <2>9, <3>3, <5>2, TokensTakenBack
          <6>2. QED
            BY <3>3, <4>1, <6>1 DEF TokensJustified
        <5>3. QED
          BY <5>1, <5>2
      <4>3. Justified(y, p)'
        BY <2>1, <4>2
      <4>4. QED
        BY <4>1, <4>3
    <3>4. ASSUME NEW t \in DOMAIN tokens', heldTokens'[t] # None, NEW p \in heldTokens'[t].sent
          PROVE  Justified(heldTokens[t].user, p)'
      <4>1. PICK y : y = heldTokens[t].user
        OBVIOUS
      <4>2. t \in DOMAIN tokens /\ heldTokens'[t] = heldTokens[t]
        BY <2>9, <3>4, TokensTakenBack
      <4>3. Justified(y, p)
        BY <3>4, <4>1, <4>2 DEF HeldJustified
      <4>4. Justified(y, p)' /\ heldTokens'[t].user = y
        BY <2>1, <4>1, <4>2, <4>3
      <4>5. QED
        BY <4>4
    <3>5. QED
      BY <3>2, <3>3, <3>4 DEF TokensJustified, HeldJustified
  <2>10. QED
    BY <1>2, <2>5, <2>6, <2>7, <2>8, <2>9 DEF HandStep
<1>3. QED
  BY <1>1, <1>2 DEF Next

\* Whatever tokens were read, changed in memory and written back, by however many
\* workers, and whatever is taken back: a date shown stands for a mail, for one that
\* is coming, or for one that failed once the token was read.
THEOREM ShownInvariant == Spec => []ShownIsMailed
<1>1. Init => TokensJustified /\ HandsJustified /\ HeldJustified
  BY NoWorkType DEF Init, TokensJustified, HandsJustified, HeldJustified
<1>2. TypeOK /\ TokensJustified /\ HandsJustified /\ HeldJustified /\ [Next]_vars
          => TokensJustified' /\ HandsJustified' /\ HeldJustified'
  BY ShownStep
<1>3. TokensJustified => ShownIsMailed
  BY DEF TokensJustified, Justified, ShownIsMailed
<1>4. QED
  BY <1>1, <1>2, <1>3, ReviewTypes, PTL DEF Spec

(* Links and the uses of tokens --------------------------------------------------*)

\* The workers that have written the token for a link to the user, still to mail.
Posting(x) ==
    {w \in Worker : /\ work[w].hand # None
                    /\ work[w].hand.written
                    /\ ~work[w].hand.letter.preview
                    /\ work[w].hand.letter.user = x}

\* A token a POST has written is of the user it was of, or new.
HeldOf(t) == heldTokens[t] # None => heldTokens[t].user \in {None, tokens[t].user}

\* The token a worker has read is one of the user it writes to, and not a new one of
\* another worker's POST.
IsRead(w, t, x) ==
    /\ tokens[t].user = x
    /\ heldTokens[t] # None => heldTokens[t].by = w \/ heldTokens[t].user # None
HandsToken ==
    /\ \A t \in DOMAIN tokens : HeldOf(t)
    /\ \A w \in Worker : work[w].hand # None /\ work[w].hand.token # 0 =>
          IsRead(w, work[w].hand.token, work[w].hand.letter.user)

\* There is one token; a worker about to change it has read what it now says, and
\* one about to create it is right that there is none.
OneToken(x) == \A s, t \in TokensOf(x) : s = t
ReadIsCurrent(x) ==
    \A w \in Worker : LET h == work[w].hand IN
        h # None /\ ~h.written /\ h.letter.user = x =>
            /\ h.token = 0 => TokensOf(x) = {}
            /\ h.token # 0 /\ ~h.letter.preview =>
                  h.uses = tokens[h.token].uses /\ h.sent = tokens[h.token].sent

\* The token has a use for every link mailed and every one about to be, and shows
\* their projects; before there is one, no link was.
Admitted(x) ==
    \A t \in TokensOf(x) :
        /\ letters[x] + Cardinality(Posting(x)) <= tokens[t].uses
        /\ \A p \in Project : <<x, p>> \in mailed => p \in tokens[t].sent
        /\ \A w \in Posting(x) : work[w].hand.letter.project \in tokens[t].sent
NoneYet(x) ==
    TokensOf(x) = {} =>
        letters[x] = 0 /\ Posting(x) = {} /\ \A p \in Project : <<x, p>> \notin mailed

LinkOK(x) == OneToken(x) /\ ReadIsCurrent(x) /\ Admitted(x) /\ NoneYet(x)
LinksOK == \A x \in User \ (overlapped \cup undone) : LinkOK(x)

\* Finitely many workers are about to mail a user.
LEMMA PostingFinite ==
    ASSUME ReviewAssumption, NEW x
    PROVE  IsFiniteSet(Posting(x)) /\ Cardinality(Posting(x)) \in Nat
<1>1. IsFiniteSet(Posting(x))
  BY FS_Subset DEF ReviewAssumption, Posting
<1>2. QED
  BY <1>1, FS_CardinalityType

\* A user for whom nothing changes but that workers may give up what they hold.
LEMMA LinkStays ==
    ASSUME TypeOK, NEW x \in User, LinkOK(x),
           TokensOf(x)' = TokensOf(x),
           \A t \in TokensOf(x) : tokens'[t] = tokens[t],
           letters'[x] = letters[x],
           \A p \in Project : <<x, p>> \in mailed' => <<x, p>> \in mailed,
           \A v \in Worker :
               \/ work'[v].hand = work[v].hand
               \/ work'[v].hand = None
               \/ work'[v].hand.letter.user # x
               \/ work'[v].hand.letter.preview /\ work'[v].hand.written,
           HandsToken,
           \A v \in Worker : work[v].hand # None => work[v].hand.token \in 0 .. Len(tokens)
    PROVE  LinkOK(x)'
<1>1. Posting(x)' \subseteq Posting(x)
  BY DEF Posting
<1>2. /\ Cardinality(Posting(x)) \in Nat /\ Cardinality(Posting(x)') \in Nat
      /\ Cardinality(Posting(x)') <= Cardinality(Posting(x))
  <2>1. IsFiniteSet(Posting(x)) /\ Cardinality(Posting(x)) \in Nat
    BY ReviewAssumption, PostingFinite
  <2>2. IsFiniteSet(Posting(x)')
    BY <1>1, <2>1, FS_Subset
  <2>3. QED
    BY <1>1, <2>1, <2>2, FS_Subset, FS_CardinalityType
<1>3. OneToken(x)' /\ NoneYet(x)'
  BY <1>1 DEF LinkOK, OneToken, NoneYet
<1>4. ReadIsCurrent(x)'
  <2> SUFFICES ASSUME NEW v \in Worker, work'[v].hand # None, ~work'[v].hand.written,
                      work'[v].hand.letter.user = x
               PROVE  /\ work'[v].hand.token = 0 => TokensOf(x)' = {}
                      /\ work'[v].hand.token # 0 /\ ~work'[v].hand.letter.preview =>
                            /\ work'[v].hand.uses = tokens'[work'[v].hand.token].uses
                            /\ work'[v].hand.sent = tokens'[work'[v].hand.token].sent
    BY DEF ReadIsCurrent
  <2>1. work'[v].hand = work[v].hand
    OBVIOUS
  <2>2. work[v].hand.token # 0 => work[v].hand.token \in TokensOf(x)
    BY <2>1 DEF HandsToken, IsRead, TokensOf, TypeOK
  <2>3. QED
    BY <2>1, <2>2 DEF LinkOK, ReadIsCurrent
<1>5. Admitted(x)'
  <2> SUFFICES ASSUME NEW t \in TokensOf(x)
               PROVE  /\ letters'[x] + Cardinality(Posting(x)') <= tokens'[t].uses
                      /\ \A p \in Project : <<x, p>> \in mailed' => p \in tokens'[t].sent
                      /\ \A w \in Posting(x)' : work'[w].hand.letter.project \in tokens'[t].sent
    BY DEF Admitted
  <2>1. letters[x] \in Nat /\ tokens[t].uses \in Nat
    <3>1. tokens \in Seq(Token) /\ t \in DOMAIN tokens
      BY DEF TypeOK, TokensOf, Token
    <3>2. tokens[t] \in Token
      BY <3>1
    <3>3. QED
      BY <3>2 DEF TypeOK, Token
  <2>2. letters'[x] + Cardinality(Posting(x)') <= tokens'[t].uses
    BY <1>2, <2>1 DEF LinkOK, Admitted
  <2>3. \A w \in Posting(x)' : work'[w].hand.letter.project \in tokens'[t].sent
    <3>1. \A w \in Posting(x)' : work'[w].hand = work[w].hand
      BY DEF Posting
    <3>2. QED
      BY <1>1, <3>1 DEF LinkOK, Admitted
  <2>4. QED
    BY <2>2, <2>3 DEF LinkOK, Admitted
<1>6. QED
  BY <1>3, <1>4, <1>5 DEF LinkOK

\* A token is written for its own user.
LEMMA WritesOwn ==
    ASSUME TypeOK, NEW w \in Worker, WriteToken(w), NEW t \in DOMAIN tokens,
           work[w].hand.token # 0 =>
               tokens[work[w].hand.token].user = work[w].hand.letter.user
    PROVE  tokens'[t].user = tokens[t].user
<1> DEFINE h == work[w].hand
           new == TokenAtHand(h)
<1>1. new.user = h.letter.user /\ tokens \in Seq(Token) /\ t \in 1 .. Len(tokens)
  BY DEF TypeOK, TokenAtHand
<1> HIDE DEF new
<1>2. CASE ~Changes(h)
  BY <1>2 DEF WriteToken, issued
<1>3. CASE Changes(h) /\ h.token = 0
  <2>1. tokens' = Append(tokens, new)
    BY <1>3 DEF WriteToken, IssueToken, new
  <2>2. new \in Token
    <3>1. h \in Hand
      BY LettersStep
    <3>2. QED
      BY <3>1, TokenAtHandType DEF new
  <2>3. tokens'[t] = tokens[t]
    BY <1>1, <2>1, <2>2, AppendProperties
  <2>4. QED
    BY <2>3
<1>4. CASE Changes(h) /\ h.token # 0
  <2>1. tokens' = [tokens EXCEPT ![h.token] = new]
    BY <1>4 DEF WriteToken, SaveToken, new
  <2> HIDE DEF h
  <2>2. CASE t = h.token
    <3>1. tokens'[t] = new
      BY <2>1, <2>2
    <3>2. tokens[t].user = h.letter.user
      BY <1>4, <2>2 DEF h
    <3>3. QED
      BY <1>1, <3>1, <3>2
  <2>3. CASE t # h.token
    BY <2>1, <2>3
  <2>4. QED
    BY <2>2, <2>3
<1>5. QED
  BY <1>2, <1>3, <1>4

\* Every step leaves a token that a worker has read one of the user's.
LEMMA HandsTokenStep ==
    ASSUME TypeOK, HandsToken, NEW w \in Worker, Request(w) \/ WorkStep(w) \/ Kill(w)
    PROVE  HandsToken'
<1> USE ReviewAssumption
<1>1. \A v \in Worker : v # w => work'[v] = work[v]
  BY OthersStay
<1>2. /\ tokens \in Seq(Token) /\ DOMAIN tokens = 1 .. Len(tokens) /\ Len(tokens) \in Nat
      /\ \A v \in Worker : work[v].hand # None => work[v].hand.token \in 0 .. Len(tokens)
  BY DEF TypeOK
<1>3. \A v \in Worker : work[v].hand # None /\ work[v].hand.token # 0 =>
          work[v].hand.token \in DOMAIN tokens
  BY <1>2
<1>4. \A v \in Worker : work[v].hand # None /\ work[v].hand.token # 0 =>
          IsRead(v, work[v].hand.token, work[v].hand.letter.user)
  BY DEF HandsToken
<1>5. ASSUME \A t \in DOMAIN tokens' : HeldOf(t)',
             \A v \in Worker : \A t \in DOMAIN tokens : \A x \in User :
                 (v # w \/ work'[v].hand # None) /\ IsRead(v, t, x) => IsRead(v, t, x)',
             \/ work'[w].hand = None
             \/ /\ work[w].hand # None
                /\ work'[w].hand.token = work[w].hand.token
                /\ work'[w].hand.letter = work[w].hand.letter
      PROVE  HandsToken'
  <2> SUFFICES ASSUME NEW v \in Worker, work'[v].hand # None, work'[v].hand.token # 0
               PROVE  IsRead(v, work[v].hand.token, work[v].hand.letter.user)'
    BY <1>5 DEF HandsToken
  <2>1. /\ work[v].hand # None
        /\ work'[v].hand.token = work[v].hand.token
        /\ work'[v].hand.letter = work[v].hand.letter
    BY <1>1, <1>5
  <2>2. PICK t \in DOMAIN tokens : t = work[v].hand.token
    BY <1>3, <2>1
  <2>3. PICK x \in User : x = work[v].hand.letter.user
    <3>1. work[v].hand \in Hand
      BY <2>1 DEF TypeOK, Work
    <3>2. QED
      BY <3>1 DEF Hand, Letter
  <2>4. IsRead(v, t, x)
    BY <1>4, <2>1, <2>2, <2>3
  <2>5. IsRead(v, t, x)'
    BY <1>5, <2>4
  <2>6. t = work'[v].hand.token /\ x = work'[v].hand.letter.user
    BY <2>1, <2>2, <2>3
  <2>7. QED
    BY <2>5, <2>6
<1>6. ASSUME UNCHANGED tokens,
             \A t \in DOMAIN tokens : heldTokens'[t] # None => heldTokens'[t] = heldTokens[t]
      PROVE  /\ \A t \in DOMAIN tokens' : HeldOf(t)'
             /\ \A v \in Worker : \A t \in DOMAIN tokens : \A x \in User :
                   IsRead(v, t, x) => IsRead(v, t, x)'
  BY <1>6 DEF HandsToken, HeldOf, IsRead
<1>7. CASE (Request(w) \/ WorkStep(w)) /\ ~HandStep(w)
  <2>1. /\ work'[w].hand = None /\ UNCHANGED tokens
        /\ \A t \in DOMAIN tokens : heldTokens'[t] # None => heldTokens'[t] = heldTokens[t]
    BY <1>7, OtherSteps
  <2>2. QED
    BY <1>5, <1>6, <2>1
<1>8. ASSUME NEW l \in work[w].letters, ReadToken(w, l)
      PROVE  HandsToken'
  <2>1. UNCHANGED <<tokens, heldTokens>>
    BY <1>8 DEF ReadToken, issued
  <2>2. work'[w].hand = HandOf(w, l) /\ l \in Letter
    BY <1>8, LettersStep
  <2>3. /\ HandOf(w, l).letter = l
        /\ HandOf(w, l).token # 0 => HandOf(w, l).token \in SeenOf(w, l.user)
    <3>1. IssuedOK
      BY TypeParts
    <3>2. QED
      BY <2>2, <3>1, HandOfType
  <2>4. ASSUME NEW t \in SeenOf(w, l.user)
        PROVE  IsRead(w, t, l.user)
    <3>1. t \in DOMAIN tokens /\ SeenToken(w, t).user = l.user /\ l.user \in User
      BY <2>2 DEF SeenOf, Letter
    <3>2. CASE heldTokens[t] = None \/ heldTokens[t].by = w
      BY <3>1, <3>2 DEF SeenToken, IsRead
    <3>3. CASE ~(heldTokens[t] = None \/ heldTokens[t].by = w)
      <4>1. heldTokens[t].user = l.user /\ HeldOf(t)
        BY <3>1, <3>3 DEF SeenToken, HandsToken
      <4>2. QED
        BY <3>1, <3>3, <4>1 DEF IsRead, HeldOf
    <3>4. QED
      BY <3>2, <3>3
  <2>5. \A v \in Worker : work'[v].hand # None /\ work'[v].hand.token # 0 =>
            IsRead(v, work'[v].hand.token, work'[v].hand.letter.user)
    BY <1>1, <1>4, <2>2, <2>3, <2>4
  <2>6. \A t \in DOMAIN tokens : HeldOf(t)
    BY DEF HandsToken
  <2>7. QED
    BY <2>1, <2>5, <2>6 DEF HandsToken, HeldOf, IsRead
<1>9. CASE WriteToken(w)
  <2> DEFINE h == work[w].hand
  <2>1. /\ h \in Hand /\ h # None
        /\ work'[w].hand.token = h.token /\ work'[w].hand.letter = h.letter
    <3>1. h \in Hand /\ work'[w].hand = [h EXCEPT !.written = TRUE] /\ h # None
      BY <1>9, LettersStep
    <3>2. QED
      BY <3>1 DEF Hand
  <2>2. h.letter.user \in User
    BY <2>1 DEF Hand, Letter
  <2>3. DOMAIN tokens \subseteq DOMAIN tokens'
    <3>1. IssuedOK /\ WorkOK
      BY TypeParts
    <3>2. IssuedOK' /\ Len(tokens) <= Len(tokens')
      BY <1>9, <3>1, WriteTokenType
    <3>3. tokens' \in Seq(Token) /\ Len(tokens') \in Nat /\ DOMAIN tokens' = 1 .. Len(tokens')
      BY <3>2 DEF IssuedOK
    <3>4. QED
      BY <1>2, <3>2, <3>3
  <2>4. /\ h.token # 0 => tokens[h.token].user = h.letter.user
        /\ h.token # 0 => h.token \in DOMAIN tokens
    BY <1>3, <1>4, <2>1 DEF IsRead
  <2>5. \A t \in DOMAIN tokens : tokens'[t].user = tokens[t].user
    BY <1>9, <2>1, <2>3, <2>4, WritesOwn
  <2>6. \A t \in DOMAIN tokens : heldTokens'[t] # None =>
            \/ heldTokens'[t] = heldTokens[t]
            \/ heldTokens'[t].by = w /\ heldTokens'[t].user = tokens[t].user
    BY <1>9, <2>3, TokensWritten
  <2>7. \A t \in DOMAIN tokens' : t \notin DOMAIN tokens /\ heldTokens'[t] # None =>
            heldTokens'[t].user = None
    BY <1>9, TokensWritten
  <2>8. \A t \in DOMAIN tokens' : HeldOf(t)'
    BY <2>5, <2>6, <2>7 DEF HandsToken, HeldOf
  <2>9. ASSUME NEW v \in Worker, NEW t \in DOMAIN tokens, NEW x \in User, IsRead(v, t, x)
        PROVE  IsRead(v, t, x)'
    BY <2>5, <2>6, <2>9 DEF IsRead
  <2>10. QED
    BY <1>5, <2>1, <2>8, <2>9
<1>10. CASE Mail(w)
  <2>1. work'[w].hand = None /\ UNCHANGED <<tokens, heldTokens>>
    BY <1>10, LettersStep DEF Mail, issued
  <2>2. QED
    BY <1>5, <1>6, <2>1
<1>11. CASE Kill(w)
  <2>1. work'[w].hand = None
    BY <1>11, LettersStep
  <2>2. \A t \in DOMAIN tokens' : HeldOf(t)'
    BY <1>11, TokensTakenBack DEF HandsToken, HeldOf
  <2>3. ASSUME NEW v \in Worker, v # w, NEW t \in DOMAIN tokens, NEW x \in User,
               IsRead(v, t, x)
        PROVE  IsRead(v, t, x)'
    <3>1. CASE t \in HeldKeys(w)
      <4>1. heldTokens[t] # None /\ heldTokens[t].by = w
        BY <3>1 DEF HeldKeys
      <4>2. heldTokens[t].user = x
        BY <2>3, <4>1 DEF HandsToken, HeldOf, IsRead
      <4>3. heldTokens'[t] = None /\ tokens'[t].user = heldTokens[t].user
        BY <1>11, <3>1, TokensTakenBack
      <4>4. QED
        BY <4>2, <4>3 DEF IsRead
    <3>2. CASE t \notin HeldKeys(w)
      <4>1. tokens'[t] = tokens[t] /\ heldTokens'[t] = heldTokens[t]
        BY <1>11, <3>2, TokensTakenBack
      <4>2. QED
        BY <2>3, <4>1 DEF IsRead
    <3>3. QED
      BY <3>1, <3>2
  <2>4. QED
    BY <1>5, <2>1, <2>2, <2>3
<1>12. QED
  BY <1>7, <1>8, <1>9, <1>10, <1>11 DEF HandStep

\* The user whose token is written.
LEMMA WriterLink ==
    ASSUME TypeOK, HandsToken, NEW w \in Worker, WriteToken(w),
           LinkOK(work[w].hand.letter.user), work[w].hand.letter.user \notin overlapped'
    PROVE  LinkOK(work[w].hand.letter.user)'
<1> DEFINE h == work[w].hand
<1>1. PICK x \in User : x = h.letter.user
  <2>1. h \in Hand
    BY LettersStep
  <2>2. QED
    BY <2>1 DEF Hand, Letter
<1> USE ReviewAssumption
<1>2. \A v \in Worker : v # w => work'[v] = work[v]
  BY OthersStay DEF WorkStep
<1>3. /\ tokens \in Seq(Token)
      /\ \A v \in Worker : work[v].hand # None => work[v].hand.token \in 0 .. Len(tokens)
      /\ letters' = letters /\ mailed' = mailed /\ letters[x] \in Nat
  BY DEF TypeOK, Token, WriteToken
<1>4. /\ h \in Hand /\ h # None /\ ~h.written
      /\ work'[w].hand = [h EXCEPT !.written = TRUE] /\ work'[w].hand # None
  BY LettersStep DEF WriteToken
<1>5. /\ work'[w].hand.written
      /\ work'[w].hand.letter = h.letter
      /\ h.uses \in Nat /\ h.token \in 0 .. Len(tokens)
  BY <1>3, <1>4 DEF Hand
<1>6. CASE ~Changes(h)
  <2>1. tokens' = tokens
    BY <1>6 DEF WriteToken, issued
  <2>2. TokensOf(x)' = TokensOf(x)
    BY <2>1 DEF TokensOf
  <2>3. work'[w].hand.letter.preview /\ work'[w].hand.written
    BY <1>5, <1>6 DEF Changes
  <2>4. LinkOK(x)
    BY <1>1
  <2>5. LinkOK(x)'
    BY <1>2, <1>3, <2>1, <2>2, <2>3, <2>4, LinkStays
  <2>6. h'.letter.user = x
    BY <1>1, <1>5
  <2>7. QED
    BY <2>5, <2>6
<1>7. CASE Changes(h)
  <2> DEFINE new == TokenAtHand(h)
             t0 == IF h.token = 0 THEN Len(tokens) + 1 ELSE h.token
  <2>1. new.user = x /\ new.uses \in Nat /\ new \in Token
    BY <1>1, <1>4, TokenAtHandType DEF TokenAtHand, Token
  <2>2. \A v \in Worker : v # w /\ work[v].hand # None /\ ~work[v].hand.written
                              /\ work[v].hand.letter.user = x => ~Changes(work[v].hand)
    BY <1>1, <1>7 DEF WriteToken
  <2>3. /\ h.token = 0 => TokensOf(x) = {}
        /\ h.token # 0 => /\ h.token \in TokensOf(x)
                          /\ ~h.letter.preview
                          /\ h.uses = tokens[h.token].uses
                          /\ h.sent = tokens[h.token].sent
    BY <1>1, <1>3, <1>4, <1>5, <1>7
       DEF LinkOK, ReadIsCurrent, HandsToken, IsRead, TokensOf, Changes
  <2>4. TokensOf(x) \subseteq {t0}
    BY <1>1, <2>3 DEF LinkOK, OneToken
  <2>5. t0 \in DOMAIN tokens' /\ tokens'[t0] = new /\ DOMAIN tokens' \subseteq Nat
        /\ \A t \in DOMAIN tokens' : t # t0 => t \in DOMAIN tokens /\ tokens'[t] = tokens[t]
    <3> HIDE DEF new, h
    <3>1. CASE h.token = 0
      <4>1. tokens' = Append(tokens, new)
        BY <1>7, <3>1 DEF WriteToken, IssueToken, new, h
      <4>2. QED
        BY <1>3, <2>1, <3>1, <4>1
    <3>2. CASE h.token # 0
      <4>1. tokens' = [tokens EXCEPT ![h.token] = new]
        BY <1>7, <3>2 DEF WriteToken, SaveToken, new, h
      <4>2. QED
        BY <1>3, <1>5, <2>1, <3>2, <4>1 DEF h
    <3>3. QED
      BY <3>1, <3>2
  <2> HIDE DEF t0, new
  <2>6. TokensOf(x)' = {t0}
    BY <2>1, <2>4, <2>5 DEF TokensOf
  <2>7. Posting(x)' = IF h.letter.preview THEN Posting(x) ELSE Posting(x) \cup {w}
    BY <1>1, <1>2, <1>4, <1>5 DEF Posting
  <2>8. IsFiniteSet(Posting(x)) /\ Cardinality(Posting(x)) \in Nat /\ w \notin Posting(x)
    BY <1>4, PostingFinite DEF Posting
  <2>9. /\ Cardinality(Posting(x)') \in Nat
        /\ Cardinality(Posting(x)') =
               IF h.letter.preview THEN Cardinality(Posting(x)) ELSE Cardinality(Posting(x)) + 1
    <3>1. CASE h.letter.preview
      BY <2>7, <2>8, <3>1
    <3>2. CASE ~h.letter.preview
      <4>1. Posting(x)' = Posting(x) \cup {w}
        BY <2>7, <3>2
      <4>2. Cardinality(Posting(x) \cup {w}) = Cardinality(Posting(x)) + 1
        BY <2>8, FS_AddElement
      <4>3. QED
        BY <2>8, <3>2, <4>1, <4>2
    <3>3. QED
      BY <3>1, <3>2
  <2>10. OneToken(x)' /\ NoneYet(x)'
    BY <2>6 DEF OneToken, NoneYet
  <2>11. ReadIsCurrent(x)'
    <3> SUFFICES ASSUME NEW v \in Worker, work'[v].hand # None, ~work'[v].hand.written,
                        work'[v].hand.letter.user = x
                 PROVE  /\ work'[v].hand.token # 0
                        /\ work'[v].hand.letter.preview
      BY DEF ReadIsCurrent
    <3>1. v # w /\ work'[v] = work[v]
      BY <1>2, <1>5
    <3>2. QED
      BY <2>2, <3>1 DEF Changes
  <2>12. Admitted(x)'
    <3>1. letters'[x] + Cardinality(Posting(x)') <= new.uses
      <4>1. CASE h.token = 0
        <5>1. letters[x] = 0 /\ Cardinality(Posting(x)) = 0
          BY <1>1, <2>3, <4>1, FS_EmptySet DEF LinkOK, NoneYet
        <5>2. new.uses = h.uses + 1
          BY <4>1 DEF new, TokenAtHand
        <5>3. QED
          BY <1>3, <1>5, <2>9, <5>1, <5>2
      <4>2. CASE h.token # 0
        <5>1. letters[x] + Cardinality(Posting(x)) <= h.uses
          BY <1>1, <2>3, <4>2 DEF LinkOK, Admitted
        <5>2. new.uses = h.uses + 1 /\ Cardinality(Posting(x)') = Cardinality(Posting(x)) + 1
          BY <2>3, <2>9, <4>2 DEF new, TokenAtHand
        <5>3. QED
          BY <1>3, <1>5, <2>8, <5>1, <5>2
      <4>3. QED
        BY <4>1, <4>2
    <3>2. \A p \in Project : <<x, p>> \in mailed' => p \in new.sent
      <4>1. CASE h.token = 0
        BY <1>1, <1>3, <2>3, <4>1 DEF LinkOK, NoneYet
      <4>2. CASE h.token # 0
        BY <1>1, <1>3, <2>3, <4>2 DEF LinkOK, Admitted, new, TokenAtHand
      <4>3. QED
        BY <4>1, <4>2
    <3>3. \A v \in Posting(x)' : work'[v].hand.letter.project \in new.sent
      <4> SUFFICES ASSUME NEW v \in Posting(x)'
                   PROVE  work'[v].hand.letter.project \in new.sent
        OBVIOUS
      <4>1. CASE v = w
        <5>1. ~h.letter.preview
          BY <1>5, <4>1 DEF Posting
        <5>2. QED
          BY <1>5, <4>1, <5>1 DEF new, TokenAtHand
      <4>2. CASE v # w
        <5>1. v \in Posting(x) /\ work'[v] = work[v]
          BY <1>2, <2>7, <4>2 DEF Posting
        <5>2. h.token # 0
          BY <1>1, <2>3, <5>1 DEF LinkOK, NoneYet
        <5>3. work[v].hand.letter.project \in h.sent
          BY <1>1, <2>3, <5>1, <5>2 DEF LinkOK, Admitted
        <5>4. QED
          BY <5>1, <5>3 DEF new, TokenAtHand
      <4>3. QED
        BY <4>1, <4>2
    <3>4. QED
      BY <2>5, <2>6, <3>1, <3>2, <3>3 DEF Admitted
  <2>13. LinkOK(x)'
    BY <2>10, <2>11, <2>12 DEF LinkOK
  <2>14. h'.letter.user = x
    BY <1>1, <1>5
  <2>15. QED
    BY <2>13, <2>14
<1>8. QED
  BY <1>6, <1>7

\* The user a link is mailed to.
LEMMA MailedLink ==
    ASSUME TypeOK, NEW w \in Worker, Mail(w), NEW x \in User, x = work[w].hand.letter.user,
           ~work[w].hand.letter.preview, LinkOK(x)
    PROVE  LinkOK(x)'
<1> DEFINE h == work[w].hand
<1> USE ReviewAssumption
<1>1. \A v \in Worker : v # w => work'[v] = work[v]
  BY OthersStay DEF WorkStep
<1>2. /\ h # None /\ h.written /\ work'[w].hand = None /\ UNCHANGED tokens
      /\ letters \in [User -> Nat] /\ letters' = [letters EXCEPT ![x] = letters[x] + 1]
      /\ mailed' = mailed \cup {<<x, h.letter.project>>}
  BY LettersStep DEF Mail, TypeOK, issued
<1>3. w \in Posting(x) /\ Posting(x)' = Posting(x) \ {w}
  BY <1>1, <1>2 DEF Posting
<1>4. /\ Cardinality(Posting(x)) \in Nat /\ Cardinality(Posting(x)') \in Nat
      /\ Cardinality(Posting(x)') = Cardinality(Posting(x)) - 1
  <2>1. IsFiniteSet(Posting(x)) /\ Cardinality(Posting(x)) \in Nat
    BY PostingFinite
  <2>2. IsFiniteSet(Posting(x)') /\ Cardinality(Posting(x)') = Cardinality(Posting(x)) - 1
    BY <1>3, <2>1, FS_RemoveElement
  <2>3. QED
    BY <2>1, <2>2, FS_CardinalityType
<1>5. TokensOf(x)' = TokensOf(x) /\ TokensOf(x) # {}
  BY <1>2, <1>3 DEF TokensOf, LinkOK, NoneYet
<1>6. OneToken(x)' /\ NoneYet(x)'
  BY <1>5 DEF LinkOK, OneToken, NoneYet
<1>7. ReadIsCurrent(x)'
  BY <1>1, <1>2, <1>5 DEF LinkOK, ReadIsCurrent
<1>8. Admitted(x)'
  <2> SUFFICES ASSUME NEW t \in TokensOf(x)
               PROVE  /\ letters'[x] + Cardinality(Posting(x)') <= tokens'[t].uses
                      /\ \A p \in Project : <<x, p>> \in mailed' => p \in tokens'[t].sent
                      /\ \A v \in Posting(x)' : work'[v].hand.letter.project \in tokens'[t].sent
    BY <1>5 DEF Admitted
  <2>1. letters'[x] + Cardinality(Posting(x)') <= tokens'[t].uses
    <3>1. /\ letters[x] + Cardinality(Posting(x)) <= tokens[t].uses
          /\ letters'[x] = letters[x] + 1 /\ letters[x] \in Nat /\ tokens' = tokens
      BY <1>2 DEF LinkOK, Admitted
    <3>2. letters'[x] + Cardinality(Posting(x)') = letters[x] + Cardinality(Posting(x))
      BY <1>4, <3>1
    <3>3. QED
      BY <3>1, <3>2
  <2>2. \A p \in Project : <<x, p>> \in mailed' => p \in tokens'[t].sent
    <3>1. h.letter.project \in tokens[t].sent
      BY <1>3 DEF LinkOK, Admitted
    <3>2. \A p \in Project : <<x, p>> \in mailed => p \in tokens[t].sent
      BY DEF LinkOK, Admitted
    <3>3. \A p \in Project : <<x, p>> \in mailed' => <<x, p>> \in mailed \/ p = h.letter.project
      BY <1>2
    <3>4. QED
      BY <1>2, <3>1, <3>2, <3>3
  <2>3. \A v \in Posting(x)' : work'[v].hand.letter.project \in tokens'[t].sent
    <3>1. \A v \in Posting(x)' : v \in Posting(x) /\ v \in Worker /\ v # w
      BY <1>3 DEF Posting
    <3>2. \A v \in Posting(x) : work[v].hand.letter.project \in tokens[t].sent
      BY DEF LinkOK, Admitted
    <3>3. QED
      BY <1>1, <1>2, <3>1, <3>2
  <2>4. QED
    BY <2>1, <2>2, <2>3
<1>9. QED
  BY <1>6, <1>7, <1>8 DEF LinkOK

\* The user whose token is read.
LEMMA ReaderLink ==
    ASSUME TypeOK, HandsToken, NEW w \in Worker, NEW l \in work[w].letters, ReadToken(w, l),
           NEW x \in User, x = l.user, LinkOK(x), x \notin overlapped'
    PROVE  LinkOK(x)'
<1> USE ReviewAssumption
<1> DEFINE h == HandOf(w, l)
<1>1. \A v \in Worker : v # w => work'[v] = work[v]
  BY OthersStay DEF WorkStep
<1>2. UNCHANGED <<tokens, heldTokens, letters, mailed>>
  BY DEF ReadToken, issued
<1>3. work[w].hand = None /\ work'[w].hand = h /\ l \in Letter /\ h \in Hand
  BY LettersStep
<1>4. /\ h # None /\ ~h.written /\ h.letter = l
      /\ SeenOf(w, x) = {} => h.token = 0
      /\ SeenOf(w, x) # {} => /\ h.token \in SeenOf(w, x) /\ h.token \in 1 .. Len(tokens)
                              /\ h.uses = SeenToken(w, h.token).uses
                              /\ h.sent = SeenToken(w, h.token).sent
  <2>1. IssuedOK
    BY TypeParts
  <2>2. h.letter = l /\ ~h.written
    BY DEF HandOf
  <2>3. l \in Letter /\ h \in Hand
    BY <1>3
  <2>4. SeenOf(w, l.user) = {} => h.token = 0
    BY <2>1, <2>3, HandOfType
  <2>5. ASSUME SeenOf(w, l.user) # {}
        PROVE  /\ h.token \in SeenOf(w, l.user)
               /\ h.token \in 1 .. Len(tokens)
               /\ h.uses = SeenToken(w, h.token).uses
               /\ h.sent = SeenToken(w, h.token).sent
    BY <2>1, <2>3, <2>5, HandOfType
  <2> HIDE DEF h
  <2>6. QED
    BY <1>3, <2>2, <2>4, <2>5
<1> HIDE DEF h
<1>5. Posting(x)' = Posting(x) /\ \A v \in Posting(x) : work'[v] = work[v]
  BY <1>1, <1>3, <1>4 DEF Posting
<1>6. TokensOf(x)' = TokensOf(x)
  BY <1>2 DEF TokensOf
<1>7. OneToken(x)' /\ NoneYet(x)' /\ Admitted(x)'
  BY <1>2, <1>5, <1>6 DEF LinkOK, OneToken, NoneYet, Admitted
\* No other worker's POST holds the user's token if this starts a change.
<1>8. ASSUME Changes(h)
      PROVE  /\ SeenOf(w, x) = TokensOf(x)
             /\ \A t \in TokensOf(x) : SeenToken(w, t) = tokens[t]
  <2>1. ~ \E v \in Worker \ {w} : HeldKeys(v) \cap TokensOf(x) # {}
    BY <1>8 DEF ReadToken, h
  <2>2. \A t \in DOMAIN tokens : heldTokens[t] # None => heldTokens[t].by \in Worker
    <3>1. /\ heldTokens \in Seq(HeldToken \cup {None})
          /\ tokens \in Seq(Token) /\ Len(heldTokens) = Len(tokens)
      BY DEF TypeOK
    <3>2. \A t \in DOMAIN tokens : heldTokens[t] \in HeldToken \cup {None}
      BY <3>1
    <3>3. QED
      BY <3>2 DEF HeldToken
  <2>3. \A t \in TokensOf(x) : SeenToken(w, t) = tokens[t]
    BY <2>1, <2>2 DEF SeenToken, HeldKeys, TokensOf
  <2>4. ASSUME NEW t \in DOMAIN tokens, tokens[t].user # x
        PROVE  SeenToken(w, t).user # x
    <3>1. HeldOf(t)
      BY DEF HandsToken
    <3>2. QED
      BY <2>4, <3>1 DEF HeldOf, SeenToken
  <2>5. QED
    BY <2>3, <2>4 DEF SeenOf, TokensOf
<1>9. /\ h.token = 0 => TokensOf(x) = {}
      /\ h.token # 0 /\ ~h.letter.preview =>
            h.uses = tokens[h.token].uses /\ h.sent = tokens[h.token].sent
  <2>1. h.token = 0 => SeenOf(w, x) = {}
    <3>1. Len(tokens) \in Nat
      BY DEF TypeOK
    <3>2. QED
      BY <1>4, <3>1
  <2>2. CASE h.token = 0
    BY <1>8, <2>1, <2>2 DEF Changes
  <2>3. CASE h.token # 0 /\ ~h.letter.preview
    <3>1. h.token \in SeenOf(w, x)
      BY <1>4, <2>3
    <3>2. SeenToken(w, h.token) = tokens[h.token]
      BY <1>8, <2>3, <3>1 DEF Changes
    <3>3. QED
      BY <1>4, <2>3, <3>1, <3>2
  <2>4. QED
    BY <2>2, <2>3
<1>10. ReadIsCurrent(x)'
  <2> SUFFICES ASSUME NEW v \in Worker, work'[v].hand # None, ~work'[v].hand.written,
                      work'[v].hand.letter.user = x
               PROVE  /\ work'[v].hand.token = 0 => TokensOf(x)' = {}
                      /\ work'[v].hand.token # 0 /\ ~work'[v].hand.letter.preview =>
                            /\ work'[v].hand.uses = tokens'[work'[v].hand.token].uses
                            /\ work'[v].hand.sent = tokens'[work'[v].hand.token].sent
    BY DEF ReadIsCurrent
  <2>1. CASE v = w
    BY <1>2, <1>3, <1>6, <1>9, <2>1
  <2>2. CASE v # w
    BY <1>1, <1>2, <1>6, <2>2 DEF LinkOK, ReadIsCurrent
  <2>3. QED
    BY <2>1, <2>2
<1>11. QED
  BY <1>7, <1>10 DEF LinkOK

\* Every step keeps count of the links of users who were not overlapped.
LEMMA LinksStep ==
    ASSUME TypeOK, HandsToken, LinksOK, NEW w \in Worker, Request(w) \/ WorkStep(w) \/ Kill(w)
    PROVE  LinksOK'
<1> USE ReviewAssumption
<1> SUFFICES ASSUME NEW x \in User, x \notin overlapped', x \notin undone'
             PROVE  LinkOK(x)'
  BY DEF LinksOK
<1>1. \A v \in Worker : v # w => work'[v] = work[v]
  BY OthersStay
<1>2. /\ tokens \in Seq(Token)
      /\ \A v \in Worker : work[v].hand # None => work[v].hand.token \in 0 .. Len(tokens)
      /\ letters \in [User -> Nat]
  BY DEF TypeOK, Token
<1>3. ASSUME x \notin overlapped, x \notin undone
      PROVE  LinkOK(x)
  BY <1>3 DEF LinksOK
<1>4. CASE (Request(w) \/ WorkStep(w)) /\ ~HandStep(w)
  <2>1. work'[w].hand = None /\ UNCHANGED <<tokens, mailed, letters, overlapped, undone>>
    BY <1>4, OtherSteps
  <2>2. TokensOf(x)' = TokensOf(x)
    BY <2>1 DEF TokensOf
  <2>3. LinkOK(x)
    BY <1>3, <2>1
  <2>4. QED
    BY <1>1, <1>2, <2>1, <2>2, <2>3, LinkStays
<1>5. CASE Kill(w)
  <2>1. /\ work'[w].hand = None /\ UNCHANGED <<mailed, letters, overlapped>>
        /\ undone' = undone \cup {tokens[t].user : t \in HeldKeys(w)}
    BY <1>5, LettersStep DEF Kill, Rollback
  <2>2. \A t \in HeldKeys(w) : tokens[t].user # x
    BY <2>1
  <2>3. TokensOf(x)' = TokensOf(x) /\ \A t \in TokensOf(x) : tokens'[t] = tokens[t]
    <3>1. DOMAIN tokens' = DOMAIN tokens
      BY <1>5, TokensTakenBack
    <3>2. ASSUME NEW t \in DOMAIN tokens, t \in HeldKeys(w)
          PROVE  tokens[t].user # x /\ tokens'[t].user # x
      <4>1. heldTokens[t] # None /\ tokens'[t].user = heldTokens[t].user
        BY <1>5, <3>2, TokensTakenBack
      <4>2. HeldOf(t) /\ tokens[t].user # x
        BY <2>2, <3>2 DEF HandsToken
      <4>3. QED
        BY <4>1, <4>2 DEF HeldOf
    <3>3. \A t \in DOMAIN tokens : t \notin HeldKeys(w) => tokens'[t] = tokens[t]
      BY <1>5, TokensTakenBack
    <3>4. QED
      BY <3>1, <3>2, <3>3 DEF TokensOf
  <2>4. LinkOK(x)
    BY <1>3, <2>1
  <2>5. QED
    BY <1>1, <1>2, <2>1, <2>3, <2>4, LinkStays
<1>6. CASE Mail(w)
  <2>1. work'[w].hand = None /\ UNCHANGED <<tokens, overlapped, undone>>
    BY <1>6, LettersStep DEF Mail, issued
  <2>2. TokensOf(x)' = TokensOf(x)
    BY <2>1 DEF TokensOf
  <2>3. LinkOK(x)
    BY <1>3, <2>1
  <2>4. CASE x = work[w].hand.letter.user /\ ~work[w].hand.letter.preview
    BY <1>6, <2>3, <2>4, MailedLink
  <2>5. CASE ~(x = work[w].hand.letter.user /\ ~work[w].hand.letter.preview)
    <3>1. /\ letters'[x] = letters[x]
          /\ \A p \in Project : <<x, p>> \in mailed' => <<x, p>> \in mailed
      BY <1>2, <1>6, <2>5 DEF Mail
    <3>2. QED
      BY <1>1, <1>2, <2>1, <2>2, <2>3, <3>1, LinkStays
  <2>6. QED
    BY <2>4, <2>5
<1>7. ASSUME NEW l \in work[w].letters, ReadToken(w, l)
      PROVE  LinkOK(x)'
  <2>1. /\ UNCHANGED <<tokens, mailed, letters, undone>>
        /\ overlapped \subseteq overlapped'
    BY <1>7 DEF ReadToken, issued
  <2>2. LinkOK(x)
    BY <1>3, <2>1
  <2>3. CASE x = l.user
    BY <1>7, <2>2, <2>3, ReaderLink
  <2>4. CASE x # l.user
    <3>1. work'[w].hand.letter.user # x
      <4>1. work'[w].hand = HandOf(w, l)
        BY <1>7, LettersStep
      <4>2. QED
        BY <2>4, <4>1 DEF HandOf
    <3>2. TokensOf(x)' = TokensOf(x)
      BY <2>1 DEF TokensOf
    <3>3. QED
      BY <1>1, <1>2, <2>1, <2>2, <3>1, <3>2, LinkStays
  <2>5. QED
    BY <2>3, <2>4
<1>8. CASE WriteToken(w)
  <2> DEFINE h == work[w].hand
  <2>1. overlapped \subseteq overlapped' /\ UNCHANGED <<mailed, letters, undone>>
    BY <1>8 DEF WriteToken
  <2>2. LinkOK(x)
    BY <1>3, <2>1
  <2>3. h \in Hand /\ h # None /\ work'[w].hand.letter = h.letter
    <3>1. h \in Hand /\ work'[w].hand = [h EXCEPT !.written = TRUE]
      BY <1>8, LettersStep
    <3>2. QED
      BY <3>1 DEF Hand
  <2>4. CASE x = h.letter.user
    <3>1. LinkOK(h.letter.user)'
      BY <1>8, <2>2, <2>4, WriterLink
    <3>2. h'.letter.user = x
      BY <2>3, <2>4
    <3>3. QED
      BY <3>1, <3>2
  <2>5. CASE x # h.letter.user
    <3>1. \A t \in DOMAIN tokens' :
              (t \in DOMAIN tokens /\ tokens'[t] = tokens[t]) \/ tokens'[t].user # x
      BY <1>8, <2>5, TokensWritten DEF TokenAtHand
    <3>2. \A t \in TokensOf(x) : t \in DOMAIN tokens' /\ tokens'[t] = tokens[t]
      <4>1. TokenAtHand(h) \in Token
        BY <2>3, TokenAtHandType
      <4>2. h.token # 0 => tokens[h.token].user # x
        BY <2>3, <2>5 DEF HandsToken, IsRead
      <4> DEFINE new == TokenAtHand(h)
      <4> HIDE DEF new
      <4>3. \/ tokens' = Append(tokens, new)
            \/ tokens' = tokens
            \/ h.token # 0 /\ tokens' = [tokens EXCEPT ![h.token] = new]
        BY <1>8 DEF WriteToken, IssueToken, SaveToken, issued, new
      <4>4. QED
        BY <1>2, <4>1, <4>2, <4>3 DEF TokensOf, new
    <3>3. TokensOf(x)' = TokensOf(x)
      BY <3>1, <3>2 DEF TokensOf
    <3>4. QED
      BY <1>1, <1>2, <2>1, <2>2, <2>3, <2>5, <3>2, <3>3, LinkStays
  <2>6. QED
    BY <2>4, <2>5
<1>9. QED
  BY <1>4, <1>5, <1>6, <1>7, <1>8 DEF HandStep

\* The one token of a user is the last as well as the first.
LEMMA LinksAreShown == TypeOK /\ LinksOK => MailsShown
<1> SUFFICES ASSUME TypeOK, LinksOK, NEW x \in User \ (overlapped \cup undone)
             PROVE  /\ Cardinality(TokensOf(x)) <= 1
                    /\ letters[x] > 0 =>
                          /\ {p \in Project : <<x, p>> \in mailed} \subseteq tokens[Last(TokensOf(x))].sent
                          /\ letters[x] <= tokens[Last(TokensOf(x))].uses
  BY DEF MailsShown
<1>1. LinkOK(x) /\ letters[x] \in Nat /\ tokens \in Seq(Token)
  BY DEF LinksOK, TypeOK, Token
<1>2. CASE TokensOf(x) = {}
  BY <1>1, <1>2, FS_EmptySet DEF LinkOK, NoneYet
<1>3. ASSUME NEW t \in TokensOf(x)
      PROVE  /\ Cardinality(TokensOf(x)) <= 1
             /\ {p \in Project : <<x, p>> \in mailed} \subseteq tokens[Last(TokensOf(x))].sent
             /\ letters[x] <= tokens[Last(TokensOf(x))].uses
  <2>1. TokensOf(x) = {t} /\ t \in Nat
    BY <1>1 DEF LinkOK, OneToken, TokensOf
  <2>2. Cardinality(TokensOf(x)) = 1
    BY <2>1, FS_Singleton
  <2>3. Last(TokensOf(x)) = t
    BY <2>1 DEF Last
  <2>4. Cardinality(Posting(x)) \in Nat
    BY ReviewAssumption, PostingFinite
  <2>5. tokens[t] \in Token
    BY <1>1 DEF TokensOf
  <2>6. letters[x] <= tokens[t].uses
    <3>1. letters[x] + Cardinality(Posting(x)) <= tokens[t].uses /\ tokens[t].uses \in Nat
      BY <1>1, <2>5 DEF LinkOK, Admitted, Token
    <3>2. QED
      BY <1>1, <2>4, <3>1
  <2>7. QED
    BY <1>1, <2>2, <2>3, <2>6 DEF LinkOK, Admitted
<1>4. QED
  BY <1>2, <1>3

\* Unless two changes of it overlap, those of a POST until it commits, or a POST that
\* wrote it is taken back, the token of a user is the only one, admits a use for every
\* link mailed, and shows a date for each of their projects.
THEOREM MailsInvariant == Spec => []MailsShown
<1>1. Init => HandsToken /\ LinksOK
  <2> SUFFICES ASSUME Init
               PROVE  HandsToken /\ LinksOK
    OBVIOUS
  <2>1. \A w \in Worker : work[w].hand = None
    BY NoWorkType DEF Init
  <2>2. /\ \A x \in User : TokensOf(x) = {} /\ Posting(x) = {} /\ letters[x] = 0 /\ mailed = {}
        /\ DOMAIN tokens = {}
    BY <2>1 DEF Init, TokensOf, Posting
  <2>3. QED
    BY <2>1, <2>2
       DEF HandsToken, LinksOK, LinkOK, OneToken, ReadIsCurrent, Admitted, NoneYet
<1>2. TypeOK /\ HandsToken /\ LinksOK /\ [Next]_vars => HandsToken' /\ LinksOK'
  <2>1. ASSUME TypeOK, HandsToken, LinksOK, NEW w \in Worker,
               Request(w) \/ WorkStep(w) \/ Kill(w)
        PROVE  HandsToken' /\ LinksOK'
    BY <2>1, HandsTokenStep, LinksStep
  <2>2. ASSUME HandsToken, LinksOK, UNCHANGED vars
        PROVE  HandsToken' /\ LinksOK'
    <3>1. UNCHANGED <<tokens, heldTokens, work, mailed, letters, overlapped, undone>>
      BY <2>2 DEF vars, history, issued
    <3>2. \A x : TokensOf(x)' = TokensOf(x) /\ Posting(x)' = Posting(x)
      BY <3>1 DEF Posting, TokensOf
    <3>3. QED
      BY <2>2, <3>1, <3>2
         DEF HandsToken, HeldOf, IsRead, LinksOK, LinkOK, OneToken, ReadIsCurrent, Admitted,
             NoneYet
  <2>3. QED
    BY <2>1, <2>2 DEF Next
<1>3. QED
  BY <1>1, <1>2, LinksAreShown, ReviewTypes, PTL DEF Spec
=============================================================================
