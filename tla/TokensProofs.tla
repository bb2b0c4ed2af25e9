---------------------------- MODULE TokensProofs ----------------------------
(***************************************************************************)
(* Proofs about Tokens for every number of handlers and users and every    *)
(* lifetime of the tokens.                                                 *)
(***************************************************************************)
EXTENDS Tokens, TLAPS

\* The tokens a handler signs are of the type of tokens.
LEMMA SignedTyped ==
    ASSUME NEW u \in Users
    PROVE  /\ Token(u, AccessTTL) \in [user : Users, left : 1 .. RefreshTTL]
           /\ Token(u, RefreshTTL) \in [user : Users, left : 1 .. RefreshTTL]
  <1>1. AccessTTL \in 1 .. RefreshTTL /\ RefreshTTL \in 1 .. RefreshTTL
    BY TokensAssumption
  <1> QED BY <1>1 DEF Token

\* A token that ages keeps its user, and never gains time.
LEMMA AgedTyped ==
    ASSUME NEW T, T \subseteq [user : Users, left : 1 .. RefreshTTL], NEW t \in Aged(T)
    PROVE  /\ t \in [user : Users, left : 1 .. RefreshTTL]
           /\ \E s \in T : s.user = t.user /\ t.left <= s.left
  <1>1. PICK s \in T : s.left > 1 /\ t = Token(s.user, s.left - 1)
    BY DEF Aged
  <1>2. s.user \in Users /\ s.left \in 1 .. RefreshTTL
    OBVIOUS
  <1>3. s.left - 1 \in 1 .. RefreshTTL /\ s.left - 1 <= s.left
    BY <1>1, <1>2, TokensAssumption
  <1> QED BY <1>1, <1>2, <1>3 DEF Token

\* No account and no token exists at the start.
LEMMA InitTyped == Init => TypeOK
  BY DEF Init, TypeOK

\* Every step keeps every variable in its type.
LEMMA StepTyped == TypeOK /\ [Next]_vars => TypeOK'
  <1> SUFFICES ASSUME TypeOK, [Next]_vars PROVE TypeOK'
    OBVIOUS
  <1> USE DEF TypeOK
  <1>1. ASSUME NEW r \in Requests, RegSign(r) PROVE TypeOK'
    BY <1>1, SignedTyped DEF RegSign, Answer
  <1>2. ASSUME NEW r \in Requests, RefreshLookup(r) PROVE TypeOK'
    BY <1>2 DEF RefreshLookup, Answer
  <1>3. ASSUME NEW r \in Requests, RefreshSign(r) PROVE TypeOK'
    BY <1>3, SignedTyped DEF RefreshSign, Answer
  <1>4. ASSUME NEW r \in Requests, RefreshRefuse(r) PROVE TypeOK'
    BY <1>4 DEF RefreshRefuse, Answer
  <1>5. ASSUME NEW r \in Requests, RefreshParse(r) PROVE TypeOK'
    BY <1>5 DEF RefreshParse
  <1>6. ASSUME NEW r \in Requests, NEW u \in Users, RegCommit(r, u) PROVE TypeOK'
    BY <1>6 DEF RegCommit
  <1>7. ASSUME NEW u \in Users, SwitchOff(u) PROVE TypeOK'
    BY <1>7 DEF SwitchOff, Signing
  <1>8. ASSUME NEW u \in Users, SwitchOn(u) PROVE TypeOK'
    BY <1>8 DEF SwitchOn
  <1>9. CASE Tick
    <2>1. Aged(tokens) \subseteq [user : Users, left : 1 .. RefreshTTL]
      BY AgedTyped
    <2> QED BY <1>9, <2>1 DEF Tick
  <1>10. CASE UNCHANGED vars
    BY <1>10 DEF vars
  <1> QED BY <1>1, <1>2, <1>3, <1>4, <1>5, <1>6, <1>7, <1>8, <1>9, <1>10 DEF Next, Step

\* Spec keeps TypeOK: no token has more time left than a refresh token's, and
\* none is used with no time left.
THEOREM TypeCorrect == Spec => []TypeOK
  BY InitTyped, StepTyped, PTL DEF Spec
-----------------------------------------------------------------------------
\* A handler about to sign has found its user active, and the user still is,
\* or was switched off since.
SeenActive ==
    \A r \in Requests : pc[r] \in {"sign", "regSign"} => status[user[r]] = "active" \/ r \in late

IInv == TypeOK /\ SeenActive

\* No handler is running at the start.
LEMMA InitInv == Init => IInv
  BY InitTyped DEF Init, IInv, SeenActive

\* Every step keeps SeenActive; SwitchOff is the one that needs late.
LEMMA StepInv == IInv /\ [Next]_vars => IInv'
  <1> SUFFICES ASSUME IInv, [Next]_vars PROVE SeenActive'
    BY StepTyped DEF IInv
  <1> USE DEF IInv, TypeOK, SeenActive
  <1>1. ASSUME NEW r \in Requests, RegSign(r) PROVE SeenActive'
    BY <1>1 DEF RegSign, Answer
  <1>2. ASSUME NEW r \in Requests, RefreshLookup(r) PROVE SeenActive'
    BY <1>2 DEF RefreshLookup, Answer
  <1>3. ASSUME NEW r \in Requests, RefreshSign(r) PROVE SeenActive'
    BY <1>3 DEF RefreshSign, Answer
  <1>4. ASSUME NEW r \in Requests, RefreshRefuse(r) PROVE SeenActive'
    BY <1>4 DEF RefreshRefuse, Answer
  <1>5. ASSUME NEW r \in Requests, RefreshParse(r) PROVE SeenActive'
    BY <1>5 DEF RefreshParse
  <1>6. ASSUME NEW r \in Requests, NEW u \in Users, RegCommit(r, u) PROVE SeenActive'
    BY <1>6 DEF RegCommit
  <1>7. ASSUME NEW u \in Users, SwitchOff(u) PROVE SeenActive'
    BY <1>7 DEF SwitchOff, Signing
  <1>8. ASSUME NEW u \in Users, SwitchOn(u) PROVE SeenActive'
    BY <1>8 DEF SwitchOn
  <1>9. CASE Tick
    BY <1>9 DEF Tick
  <1>10. CASE UNCHANGED vars
    BY <1>10 DEF vars
  <1> QED BY <1>1, <1>2, <1>3, <1>4, <1>5, <1>6, <1>7, <1>8, <1>9, <1>10 DEF Next, Step

\* A signature for a user who is off comes from a late handler.
LEMMA StepDwindles == IInv /\ [Next]_vars => [\A u \in Users : NoYounger(u)]_vars
  <1> SUFFICES ASSUME IInv, [Next]_vars, NEW u \in Users,
                      Off(u), \A r \in late : user[r] # u, NEW t \in TokensOf(u)'
               PROVE  \E s \in TokensOf(u) : t.left <= s.left
    BY DEF NoYounger
  <1> USE DEF IInv, TypeOK
  <1>0. t \in tokens' /\ t.user = u
    BY DEF TokensOf
  <1>1. \A s \in tokens : s.left \in Int /\ s.left <= s.left
    OBVIOUS
  <1>2. t \in tokens => \E s \in TokensOf(u) : t.left <= s.left
    BY <1>0, <1>1 DEF TokensOf
  <1>3. ASSUME NEW r \in Requests, RegSign(r) \/ RefreshSign(r)
        PROVE  \E s \in TokensOf(u) : t.left <= s.left
    <2>1. status[user[r]] = "active" \/ r \in late
      BY <1>3 DEF SeenActive, RegSign, RefreshSign
    <2>2. user[r] # u
      BY <2>1 DEF Off
    <2>3. tokens' \subseteq
            tokens \cup {Token(user[r], AccessTTL), Token(user[r], RefreshTTL)}
      BY <1>3 DEF RegSign, RefreshSign
    <2>4. t \in tokens
      BY <1>0, <2>2, <2>3 DEF Token
    <2> QED BY <1>2, <2>4
  <1>4. CASE Tick
    <2>1. t \in Aged(tokens)
      BY <1>0, <1>4 DEF Tick
    <2>2. PICK s \in tokens : s.user = t.user /\ t.left <= s.left
      BY <2>1, AgedTyped
    <2> QED BY <1>0, <2>2 DEF TokensOf
  <1>5. CASE tokens' = tokens
    BY <1>0, <1>2, <1>5
  <1>6. tokens' = tokens \/ Tick \/ \E r \in Requests : RegSign(r) \/ RefreshSign(r)
    BY DEF Next, Step, vars, RefreshLookup, RefreshRefuse, RefreshParse, RegCommit,
           SwitchOff, SwitchOn
  <1> QED BY <1>3, <1>4, <1>5, <1>6

\* OffDwindles always holds: only a handler caught between its is_active check
\* and its signature gives a switched off user a younger token.
THEOREM Dwindling == Spec => OffDwindles
  <1>1. Spec => []IInv
    BY InitInv, StepInv, PTL DEF Spec
  <1> QED BY <1>1, StepDwindles, PTL DEF Spec, OffDwindles
=============================================================================
