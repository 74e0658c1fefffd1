--------------------------- MODULE SessionsProofs ---------------------------
(***************************************************************************)
(* For any number of tabs, requests, logins, lost answers and reloads: one *)
(* live pair per login, no rejection the requests of a page cause each     *)
(* other, and no request left waiting.                                     *)
(***************************************************************************)
EXTENDS Sessions, TLAPS

\* A refresh somebody waits for is the promise of its tab, and under way.
CallInv ==
  \A r \in Request :
    /\ at[r] \in {"new", "sent"} => call[r] = "none"
    /\ call[r] = "none" <=> spent[r] = None
    /\ r \in heard => /\ promise[Owner[r]] = r
                      /\ r \notin left
                      /\ call[r] \in {"posted", "signing", "answered", "rejected"}
    /\ r \in left => call[r] # "none"
    /\ at[r] = "waiting" => promise[Owner[r]] # None
    /\ call[r] = "answered" => r \in live \cup ended

\* A pair that was stored has been issued, and its own refresh is over.
StoredInv ==
  stored # None =>
    /\ root[stored] # None
    /\ stored \in Request => call[stored] = "over"

\* So has one that was spent; it is stored no more once nobody waits for the
\* answer, and a tab spends it once, unless its page was left before the answer.
SpentInv ==
  \A r \in Request : spent[r] # None =>
    /\ root[spent[r]] # None
    /\ spent[r] \in Request => call[spent[r]] = "over"
    /\ r \notin heard \cup left => stored # spent[r]
    /\ \A q \in Request \ left :
         Owner[q] = Owner[r] /\ spent[q] = spent[r] => q = r \/ r \in left

\* Rows are of issued pairs, and a refresh under way has taken its row for good.
RootInv ==
  /\ \A p \in live : root[p] # None
  /\ \A p \in Pair : root[p] # None => root[root[p]] # None
  /\ \A r \in Request :
       /\ call[r] \notin {"answered", "over"} => root[r] = None
       /\ call[r] = "answered" => root[r] # None
       /\ call[r] = "signing" =>
            /\ spent[r] \notin live
            /\ \A q \in Request : call[q] = "signing" /\ spent[q] = spent[r] => q = r

\* OneLivePerLogin, said of rows and refreshes apart.
HeirInv ==
  /\ \A p, q \in live : root[p] = root[q] => p = q
  /\ \A r \in Request : call[r] = "signing" =>
       /\ \A p \in live : root[p] # root[spent[r]]
       /\ \A q \in Request : call[q] = "signing" /\ root[spent[q]] = root[spent[r]] => q = r

\* RejectedForCause, from the moment a refresh is posted.
CauseInv ==
  \A r \in heard : call[r] \in {"posted", "rejected"} =>
    \/ spent[r] \in ended
    \/ \E q \in Request : spent[q] = spent[r] /\ (Owner[q] # Owner[r] \/ q \in left)
    \/ call[r] = "posted" /\ spent[r] \in live

IInv ==
  /\ TypeOK /\ CallInv /\ StoredInv /\ SpentInv /\ RootInv /\ HeirInv
  /\ CauseInv /\ StoredIsKnown

\* It holds at the start.
LEMMA InitInv == Init => IInv
  BY SessionsAssumption DEF Init, IInv, TypeOK, CallInv, StoredInv, SpentInv, RootInv,
     HeirInv, CauseInv, StoredIsKnown, Of, Pair

\* The variables keep their types.
LEMMA TypeStep == IInv /\ [Next]_vars => TypeOK'
<1> SUFFICES ASSUME TypeOK, CallInv, SpentInv, [Next]_vars PROVE TypeOK'
  BY DEF IInv
<1> USE SessionsAssumption DEF TypeOK, CallInv, SpentInv, Of, Pair
<1>1. ASSUME NEW r \in Request, Rotate(r) PROVE TypeOK'
  BY <1>1 DEF Rotate, rowVars, tabVars, callVars
<1>2. ASSUME NEW r \in Request, Answer(r) PROVE TypeOK'
  BY <1>2 DEF Answer, Issue, rowVars, tabVars, callVars
<1>3. ASSUME NEW r \in Request, Done(r) PROVE TypeOK'
  BY <1>3 DEF Done, rowVars, tabVars, callVars
<1>4. ASSUME NEW r \in Request, Refused(r) PROVE TypeOK'
  BY <1>4 DEF Refused, Redirect, PageGoes, rowVars, tabVars, callVars
<1>5. ASSUME NEW r \in Request, Settle(r) PROVE TypeOK'
  BY <1>5 DEF Settle, Retry, rowVars, tabVars, callVars
<1>6. ASSUME NEW r \in Request, Rejected(r) PROVE TypeOK'
  BY <1>6 DEF Rejected, Redirect, PageGoes, rowVars, tabVars, callVars
<1>7. ASSUME NEW r \in Request, Send(r) PROVE TypeOK'
  BY <1>7 DEF Send, rowVars, tabVars, callVars
<1>8. ASSUME NEW r \in Request, AnswerLost(r) PROVE TypeOK'
  BY <1>8 DEF AnswerLost, Redirect, PageGoes, rowVars, tabVars, callVars
<1>9. ASSUME NEW p \in Pair, RowExpires(p) PROVE TypeOK'
  BY <1>9 DEF RowExpires, rowVars, tabVars, callVars
<1>10. ASSUME NEW t \in Tab, Resume(t) PROVE TypeOK'
  BY <1>10 DEF Resume, rowVars, tabVars, callVars
<1>11. ASSUME NEW t \in Tab, ResumeFails(t) PROVE TypeOK'
  BY <1>11 DEF ResumeFails, rowVars, tabVars, callVars
<1>12. ASSUME NEW t \in Tab, SignOut(t) PROVE TypeOK'
  BY <1>12 DEF SignOut, rowVars, tabVars, callVars
<1>13. ASSUME NEW t \in Tab, Revoke(t) PROVE TypeOK'
  BY <1>13 DEF Revoke, rowVars, tabVars, callVars
<1>14. ASSUME NEW t \in Tab, SignedOut(t) \/ Leave(t) PROVE TypeOK'
  BY <1>14 DEF SignedOut, Leave, PageGoes, rowVars, tabVars, callVars
<1>15. ASSUME NEW t \in Tab, NEW l \in Login, SignIn(t, l) PROVE TypeOK'
  BY <1>15 DEF SignIn, Issue, rowVars, callVars
<1>16. CASE UNCHANGED vars
  BY <1>16 DEF vars, rowVars, tabVars, callVars
<1> HIDE DEF TypeOK, CallInv, SpentInv
<1> QED
  BY <1>1, <1>2, <1>3, <1>4, <1>5, <1>6, <1>7,
     <1>8, <1>9, <1>10, <1>11, <1>12, <1>13, <1>14, <1>15, <1>16
     DEF Next, ServerStep, RequestStep

\* Refreshes and requests keep together.
LEMMA CallStep == IInv /\ [Next]_vars => CallInv'
<1> SUFFICES ASSUME TypeOK, CallInv, SpentInv, [Next]_vars PROVE CallInv'
  BY DEF IInv
<1> USE SessionsAssumption DEF TypeOK, CallInv, SpentInv, Of, Pair
<1>1. ASSUME NEW r \in Request, Rotate(r) PROVE CallInv'
  BY <1>1 DEF Rotate, rowVars, tabVars, callVars
<1>2. ASSUME NEW r \in Request, Answer(r) PROVE CallInv'
  BY <1>2 DEF Answer, Issue, rowVars, tabVars, callVars
<1>3. ASSUME NEW r \in Request, Done(r) PROVE CallInv'
  BY <1>3 DEF Done, rowVars, tabVars, callVars
<1>4. ASSUME NEW r \in Request, Refused(r) PROVE CallInv'
  BY <1>4 DEF Refused, Redirect, PageGoes, rowVars, tabVars, callVars
<1>5. ASSUME NEW r \in Request, Settle(r) PROVE CallInv'
  BY <1>5 DEF Settle, Retry, rowVars, tabVars, callVars
<1>6. ASSUME NEW r \in Request, Rejected(r) PROVE CallInv'
  BY <1>6 DEF Rejected, Redirect, PageGoes, rowVars, tabVars, callVars
<1>7. ASSUME NEW r \in Request, Send(r) PROVE CallInv'
  BY <1>7 DEF Send, rowVars, tabVars, callVars
<1>8. ASSUME NEW r \in Request, AnswerLost(r) PROVE CallInv'
  BY <1>8 DEF AnswerLost, Redirect, PageGoes, rowVars, tabVars, callVars
<1>9. ASSUME NEW p \in Pair, RowExpires(p) PROVE CallInv'
  BY <1>9 DEF RowExpires, rowVars, tabVars, callVars
<1>10. ASSUME NEW t \in Tab, Resume(t) PROVE CallInv'
  BY <1>10 DEF Resume, rowVars, tabVars, callVars
<1>11. ASSUME NEW t \in Tab, ResumeFails(t) PROVE CallInv'
  BY <1>11 DEF ResumeFails, rowVars, tabVars, callVars
<1>12. ASSUME NEW t \in Tab, SignOut(t) PROVE CallInv'
  BY <1>12 DEF SignOut, rowVars, tabVars, callVars
<1>13. ASSUME NEW t \in Tab, Revoke(t) PROVE CallInv'
  BY <1>13 DEF Revoke, rowVars, tabVars, callVars
<1>14. ASSUME NEW t \in Tab, SignedOut(t) \/ Leave(t) PROVE CallInv'
  BY <1>14 DEF SignedOut, Leave, PageGoes, rowVars, tabVars, callVars
<1>15. ASSUME NEW t \in Tab, NEW l \in Login, SignIn(t, l) PROVE CallInv'
  BY <1>15 DEF SignIn, Issue, rowVars, callVars
<1>16. CASE UNCHANGED vars
  BY <1>16 DEF vars, rowVars, tabVars, callVars
<1> HIDE DEF TypeOK, CallInv, SpentInv
<1> QED
  BY <1>1, <1>2, <1>3, <1>4, <1>5, <1>6, <1>7,
     <1>8, <1>9, <1>10, <1>11, <1>12, <1>13, <1>14, <1>15, <1>16
     DEF Next, ServerStep, RequestStep

\* What is stored has been issued.
LEMMA StoredStep == IInv /\ [Next]_vars => StoredInv'
<1> SUFFICES ASSUME TypeOK, StoredInv, CallInv, RootInv, [Next]_vars PROVE StoredInv'
  BY DEF IInv
<1> USE SessionsAssumption DEF TypeOK, StoredInv, CallInv, RootInv, Of, Pair
<1>1. ASSUME NEW r \in Request, Rotate(r) PROVE StoredInv'
  BY <1>1 DEF Rotate, rowVars, tabVars, callVars
<1>2. ASSUME NEW r \in Request, Answer(r) PROVE StoredInv'
  BY <1>2 DEF Answer, Issue, rowVars, tabVars, callVars
<1>3. ASSUME NEW r \in Request, Done(r) PROVE StoredInv'
  BY <1>3 DEF Done, rowVars, tabVars, callVars
<1>4. ASSUME NEW r \in Request, Refused(r) PROVE StoredInv'
  BY <1>4 DEF Refused, Redirect, PageGoes, rowVars, tabVars, callVars
<1>5. ASSUME NEW r \in Request, Settle(r) PROVE StoredInv'
  BY <1>5 DEF Settle, Retry, rowVars, tabVars, callVars
<1>6. ASSUME NEW r \in Request, Rejected(r) PROVE StoredInv'
  BY <1>6 DEF Rejected, Redirect, PageGoes, rowVars, tabVars, callVars
<1>7. ASSUME NEW r \in Request, Send(r) PROVE StoredInv'
  BY <1>7 DEF Send, rowVars, tabVars, callVars
<1>8. ASSUME NEW r \in Request, AnswerLost(r) PROVE StoredInv'
  BY <1>8 DEF AnswerLost, Redirect, PageGoes, rowVars, tabVars, callVars
<1>9. ASSUME NEW p \in Pair, RowExpires(p) PROVE StoredInv'
  BY <1>9 DEF RowExpires, rowVars, tabVars, callVars
<1>10. ASSUME NEW t \in Tab, Resume(t) PROVE StoredInv'
  BY <1>10 DEF Resume, rowVars, tabVars, callVars
<1>11. ASSUME NEW t \in Tab, ResumeFails(t) PROVE StoredInv'
  BY <1>11 DEF ResumeFails, rowVars, tabVars, callVars
<1>12. ASSUME NEW t \in Tab, SignOut(t) PROVE StoredInv'
  BY <1>12 DEF SignOut, rowVars, tabVars, callVars
<1>13. ASSUME NEW t \in Tab, Revoke(t) PROVE StoredInv'
  BY <1>13 DEF Revoke, rowVars, tabVars, callVars
<1>14. ASSUME NEW t \in Tab, SignedOut(t) \/ Leave(t) PROVE StoredInv'
  BY <1>14 DEF SignedOut, Leave, PageGoes, rowVars, tabVars, callVars
<1>15. ASSUME NEW t \in Tab, NEW l \in Login, SignIn(t, l) PROVE StoredInv'
  BY <1>15 DEF SignIn, Issue, rowVars, callVars
<1>16. CASE UNCHANGED vars
  BY <1>16 DEF vars, rowVars, tabVars, callVars
<1> HIDE DEF TypeOK, StoredInv, CallInv, RootInv
<1> QED
  BY <1>1, <1>2, <1>3, <1>4, <1>5, <1>6, <1>7,
     <1>8, <1>9, <1>10, <1>11, <1>12, <1>13, <1>14, <1>15, <1>16
     DEF Next, ServerStep, RequestStep

\* A pair is spent once in a tab.
LEMMA SpentStep == IInv /\ [Next]_vars => SpentInv'
<1> SUFFICES ASSUME TypeOK, SpentInv, CallInv, StoredInv, RootInv, [Next]_vars PROVE SpentInv'
  BY DEF IInv
<1> USE SessionsAssumption DEF TypeOK, SpentInv, CallInv, StoredInv, RootInv, Of, Pair
<1>1. ASSUME NEW r \in Request, Rotate(r) PROVE SpentInv'
  BY <1>1 DEF Rotate, rowVars, tabVars, callVars
<1>2. ASSUME NEW r \in Request, Answer(r) PROVE SpentInv'
  BY <1>2 DEF Answer, Issue, rowVars, tabVars, callVars
<1>3. ASSUME NEW r \in Request, Done(r) PROVE SpentInv'
  BY <1>3 DEF Done, rowVars, tabVars, callVars
<1>4. ASSUME NEW r \in Request, Refused(r) PROVE SpentInv'
  BY <1>4 DEF Refused, Redirect, PageGoes, rowVars, tabVars, callVars
<1>5. ASSUME NEW r \in Request, Settle(r) PROVE SpentInv'
  BY <1>5 DEF Settle, Retry, rowVars, tabVars, callVars
<1>6. ASSUME NEW r \in Request, Rejected(r) PROVE SpentInv'
  BY <1>6 DEF Rejected, Redirect, PageGoes, rowVars, tabVars, callVars
<1>7. ASSUME NEW r \in Request, Send(r) PROVE SpentInv'
  BY <1>7 DEF Send, rowVars, tabVars, callVars
<1>8. ASSUME NEW r \in Request, AnswerLost(r) PROVE SpentInv'
  BY <1>8 DEF AnswerLost, Redirect, PageGoes, rowVars, tabVars, callVars
<1>9. ASSUME NEW p \in Pair, RowExpires(p) PROVE SpentInv'
  BY <1>9 DEF RowExpires, rowVars, tabVars, callVars
<1>10. ASSUME NEW t \in Tab, Resume(t) PROVE SpentInv'
  BY <1>10 DEF Resume, rowVars, tabVars, callVars
<1>11. ASSUME NEW t \in Tab, ResumeFails(t) PROVE SpentInv'
  BY <1>11 DEF ResumeFails, rowVars, tabVars, callVars
<1>12. ASSUME NEW t \in Tab, SignOut(t) PROVE SpentInv'
  BY <1>12 DEF SignOut, rowVars, tabVars, callVars
<1>13. ASSUME NEW t \in Tab, Revoke(t) PROVE SpentInv'
  BY <1>13 DEF Revoke, rowVars, tabVars, callVars
<1>14. ASSUME NEW t \in Tab, SignedOut(t) \/ Leave(t) PROVE SpentInv'
  BY <1>14 DEF SignedOut, Leave, PageGoes, rowVars, tabVars, callVars
<1>15. ASSUME NEW t \in Tab, NEW l \in Login, SignIn(t, l) PROVE SpentInv'
  BY <1>15 DEF SignIn, Issue, rowVars, callVars
<1>16. CASE UNCHANGED vars
  BY <1>16 DEF vars, rowVars, tabVars, callVars
<1> HIDE DEF TypeOK, SpentInv, CallInv, StoredInv, RootInv
<1> QED
  BY <1>1, <1>2, <1>3, <1>4, <1>5, <1>6, <1>7,
     <1>8, <1>9, <1>10, <1>11, <1>12, <1>13, <1>14, <1>15, <1>16
     DEF Next, ServerStep, RequestStep

\* A row once taken never comes back.
LEMMA RootStep == IInv /\ [Next]_vars => RootInv'
<1> SUFFICES ASSUME TypeOK, RootInv, SpentInv, StoredInv, CallInv, [Next]_vars PROVE RootInv'
  BY DEF IInv
<1> USE SessionsAssumption DEF TypeOK, RootInv, SpentInv, StoredInv, CallInv, Of, Pair
<1>1. ASSUME NEW r \in Request, Rotate(r) PROVE RootInv'
  BY <1>1 DEF Rotate, rowVars, tabVars, callVars
<1>2. ASSUME NEW r \in Request, Answer(r) PROVE RootInv'
  BY <1>2 DEF Answer, Issue, rowVars, tabVars, callVars
<1>3. ASSUME NEW r \in Request, Done(r) PROVE RootInv'
  BY <1>3 DEF Done, rowVars, tabVars, callVars
<1>4. ASSUME NEW r \in Request, Refused(r) PROVE RootInv'
  BY <1>4 DEF Refused, Redirect, PageGoes, rowVars, tabVars, callVars
<1>5. ASSUME NEW r \in Request, Settle(r) PROVE RootInv'
  BY <1>5 DEF Settle, Retry, rowVars, tabVars, callVars
<1>6. ASSUME NEW r \in Request, Rejected(r) PROVE RootInv'
  BY <1>6 DEF Rejected, Redirect, PageGoes, rowVars, tabVars, callVars
<1>7. ASSUME NEW r \in Request, Send(r) PROVE RootInv'
  BY <1>7 DEF Send, rowVars, tabVars, callVars
<1>8. ASSUME NEW r \in Request, AnswerLost(r) PROVE RootInv'
  BY <1>8 DEF AnswerLost, Redirect, PageGoes, rowVars, tabVars, callVars
<1>9. ASSUME NEW p \in Pair, RowExpires(p) PROVE RootInv'
  BY <1>9 DEF RowExpires, rowVars, tabVars, callVars
<1>10. ASSUME NEW t \in Tab, Resume(t) PROVE RootInv'
  BY <1>10 DEF Resume, rowVars, tabVars, callVars
<1>11. ASSUME NEW t \in Tab, ResumeFails(t) PROVE RootInv'
  BY <1>11 DEF ResumeFails, rowVars, tabVars, callVars
<1>12. ASSUME NEW t \in Tab, SignOut(t) PROVE RootInv'
  BY <1>12 DEF SignOut, rowVars, tabVars, callVars
<1>13. ASSUME NEW t \in Tab, Revoke(t) PROVE RootInv'
  BY <1>13 DEF Revoke, rowVars, tabVars, callVars
<1>14. ASSUME NEW t \in Tab, SignedOut(t) \/ Leave(t) PROVE RootInv'
  BY <1>14 DEF SignedOut, Leave, PageGoes, rowVars, tabVars, callVars
<1>15. ASSUME NEW t \in Tab, NEW l \in Login, SignIn(t, l) PROVE RootInv'
  BY <1>15 DEF SignIn, Issue, rowVars, callVars
<1>16. CASE UNCHANGED vars
  BY <1>16 DEF vars, rowVars, tabVars, callVars
<1> HIDE DEF TypeOK, RootInv, SpentInv, StoredInv, CallInv
<1> QED
  BY <1>1, <1>2, <1>3, <1>4, <1>5, <1>6, <1>7,
     <1>8, <1>9, <1>10, <1>11, <1>12, <1>13, <1>14, <1>15, <1>16
     DEF Next, ServerStep, RequestStep

\* A rotation hands the login on, it does not split it.
LEMMA HeirStep == IInv /\ [Next]_vars => HeirInv'
<1> SUFFICES ASSUME TypeOK, HeirInv, RootInv, SpentInv, StoredInv, CallInv, [Next]_vars PROVE HeirInv'
  BY DEF IInv
<1> USE SessionsAssumption DEF TypeOK, HeirInv, RootInv, SpentInv, StoredInv, CallInv, Of, Pair
<1>1. ASSUME NEW r \in Request, Rotate(r) PROVE HeirInv'
  BY <1>1 DEF Rotate, rowVars, tabVars, callVars
<1>2. ASSUME NEW r \in Request, Answer(r) PROVE HeirInv'
  BY <1>2 DEF Answer, Issue, rowVars, tabVars, callVars
<1>3. ASSUME NEW r \in Request, Done(r) PROVE HeirInv'
  BY <1>3 DEF Done, rowVars, tabVars, callVars
<1>4. ASSUME NEW r \in Request, Refused(r) PROVE HeirInv'
  BY <1>4 DEF Refused, Redirect, PageGoes, rowVars, tabVars, callVars
<1>5. ASSUME NEW r \in Request, Settle(r) PROVE HeirInv'
  BY <1>5 DEF Settle, Retry, rowVars, tabVars, callVars
<1>6. ASSUME NEW r \in Request, Rejected(r) PROVE HeirInv'
  BY <1>6 DEF Rejected, Redirect, PageGoes, rowVars, tabVars, callVars
<1>7. ASSUME NEW r \in Request, Send(r) PROVE HeirInv'
  BY <1>7 DEF Send, rowVars, tabVars, callVars
<1>8. ASSUME NEW r \in Request, AnswerLost(r) PROVE HeirInv'
  BY <1>8 DEF AnswerLost, Redirect, PageGoes, rowVars, tabVars, callVars
<1>9. ASSUME NEW p \in Pair, RowExpires(p) PROVE HeirInv'
  BY <1>9 DEF RowExpires, rowVars, tabVars, callVars
<1>10. ASSUME NEW t \in Tab, Resume(t) PROVE HeirInv'
  BY <1>10 DEF Resume, rowVars, tabVars, callVars
<1>11. ASSUME NEW t \in Tab, ResumeFails(t) PROVE HeirInv'
  BY <1>11 DEF ResumeFails, rowVars, tabVars, callVars
<1>12. ASSUME NEW t \in Tab, SignOut(t) PROVE HeirInv'
  BY <1>12 DEF SignOut, rowVars, tabVars, callVars
<1>13. ASSUME NEW t \in Tab, Revoke(t) PROVE HeirInv'
  BY <1>13 DEF Revoke, rowVars, tabVars, callVars
<1>14. ASSUME NEW t \in Tab, SignedOut(t) \/ Leave(t) PROVE HeirInv'
  BY <1>14 DEF SignedOut, Leave, PageGoes, rowVars, tabVars, callVars
<1>15. ASSUME NEW t \in Tab, NEW l \in Login, SignIn(t, l) PROVE HeirInv'
  BY <1>15 DEF SignIn, Issue, rowVars, callVars
<1>16. CASE UNCHANGED vars
  BY <1>16 DEF vars, rowVars, tabVars, callVars
<1> HIDE DEF TypeOK, HeirInv, RootInv, SpentInv, StoredInv, CallInv
<1> QED
  BY <1>1, <1>2, <1>3, <1>4, <1>5, <1>6, <1>7,
     <1>8, <1>9, <1>10, <1>11, <1>12, <1>13, <1>14, <1>15, <1>16
     DEF Next, ServerStep, RequestStep

\* A rejection has its cause.
LEMMA CauseStep == IInv /\ [Next]_vars => CauseInv'
<1> SUFFICES ASSUME TypeOK, CauseInv, SpentInv, StoredInv, CallInv, StoredIsKnown, [Next]_vars PROVE CauseInv'
  BY DEF IInv
<1> USE SessionsAssumption DEF TypeOK, CauseInv, SpentInv, StoredInv, CallInv, StoredIsKnown, Of, Pair
<1>1. ASSUME NEW r \in Request, Rotate(r) PROVE CauseInv'
  BY <1>1 DEF Rotate, rowVars, tabVars, callVars
<1>2. ASSUME NEW r \in Request, Answer(r) PROVE CauseInv'
  BY <1>2 DEF Answer, Issue, rowVars, tabVars, callVars
<1>3. ASSUME NEW r \in Request, Done(r) PROVE CauseInv'
  BY <1>3 DEF Done, rowVars, tabVars, callVars
<1>4. ASSUME NEW r \in Request, Refused(r) PROVE CauseInv'
  BY <1>4 DEF Refused, Redirect, PageGoes, rowVars, tabVars, callVars
<1>5. ASSUME NEW r \in Request, Settle(r) PROVE CauseInv'
  BY <1>5 DEF Settle, Retry, rowVars, tabVars, callVars
<1>6. ASSUME NEW r \in Request, Rejected(r) PROVE CauseInv'
  BY <1>6 DEF Rejected, Redirect, PageGoes, rowVars, tabVars, callVars
<1>7. ASSUME NEW r \in Request, Send(r) PROVE CauseInv'
  BY <1>7 DEF Send, rowVars, tabVars, callVars
<1>8. ASSUME NEW r \in Request, AnswerLost(r) PROVE CauseInv'
  BY <1>8 DEF AnswerLost, Redirect, PageGoes, rowVars, tabVars, callVars
<1>9. ASSUME NEW p \in Pair, RowExpires(p) PROVE CauseInv'
  BY <1>9 DEF RowExpires, rowVars, tabVars, callVars
<1>10. ASSUME NEW t \in Tab, Resume(t) PROVE CauseInv'
  BY <1>10 DEF Resume, rowVars, tabVars, callVars
<1>11. ASSUME NEW t \in Tab, ResumeFails(t) PROVE CauseInv'
  BY <1>11 DEF ResumeFails, rowVars, tabVars, callVars
<1>12. ASSUME NEW t \in Tab, SignOut(t) PROVE CauseInv'
  BY <1>12 DEF SignOut, rowVars, tabVars, callVars
<1>13. ASSUME NEW t \in Tab, Revoke(t) PROVE CauseInv'
  BY <1>13 DEF Revoke, rowVars, tabVars, callVars
<1>14. ASSUME NEW t \in Tab, SignedOut(t) \/ Leave(t) PROVE CauseInv'
  BY <1>14 DEF SignedOut, Leave, PageGoes, rowVars, tabVars, callVars
<1>15. ASSUME NEW t \in Tab, NEW l \in Login, SignIn(t, l) PROVE CauseInv'
  BY <1>15 DEF SignIn, Issue, rowVars, callVars
<1>16. CASE UNCHANGED vars
  BY <1>16 DEF vars, rowVars, tabVars, callVars
<1> HIDE DEF TypeOK, CauseInv, SpentInv, StoredInv, CallInv, StoredIsKnown
<1> QED
  BY <1>1, <1>2, <1>3, <1>4, <1>5, <1>6, <1>7,
     <1>8, <1>9, <1>10, <1>11, <1>12, <1>13, <1>14, <1>15, <1>16
     DEF Next, ServerStep, RequestStep

\* The stored pair or its successor stays known.
LEMMA KnownStep == IInv /\ [Next]_vars => StoredIsKnown'
<1> SUFFICES ASSUME TypeOK, StoredIsKnown, SpentInv, StoredInv, CallInv, [Next]_vars PROVE StoredIsKnown'
  BY DEF IInv
<1> USE SessionsAssumption DEF TypeOK, StoredIsKnown, SpentInv, StoredInv, CallInv, Of, Pair
<1>1. ASSUME NEW r \in Request, Rotate(r) PROVE StoredIsKnown'
  BY <1>1 DEF Rotate, rowVars, tabVars, callVars
<1>2. ASSUME NEW r \in Request, Answer(r) PROVE StoredIsKnown'
  BY <1>2 DEF Answer, Issue, rowVars, tabVars, callVars
<1>3. ASSUME NEW r \in Request, Done(r) PROVE StoredIsKnown'
  BY <1>3 DEF Done, rowVars, tabVars, callVars
<1>4. ASSUME NEW r \in Request, Refused(r) PROVE StoredIsKnown'
  BY <1>4 DEF Refused, Redirect, PageGoes, rowVars, tabVars, callVars
<1>5. ASSUME NEW r \in Request, Settle(r) PROVE StoredIsKnown'
  BY <1>5 DEF Settle, Retry, rowVars, tabVars, callVars
<1>6. ASSUME NEW r \in Request, Rejected(r) PROVE StoredIsKnown'
  BY <1>6 DEF Rejected, Redirect, PageGoes, rowVars, tabVars, callVars
<1>7. ASSUME NEW r \in Request, Send(r) PROVE StoredIsKnown'
  BY <1>7 DEF Send, rowVars, tabVars, callVars
<1>8. ASSUME NEW r \in Request, AnswerLost(r) PROVE StoredIsKnown'
  BY <1>8 DEF AnswerLost, Redirect, PageGoes, rowVars, tabVars, callVars
<1>9. ASSUME NEW p \in Pair, RowExpires(p) PROVE StoredIsKnown'
  BY <1>9 DEF RowExpires, rowVars, tabVars, callVars
<1>10. ASSUME NEW t \in Tab, Resume(t) PROVE StoredIsKnown'
  BY <1>10 DEF Resume, rowVars, tabVars, callVars
<1>11. ASSUME NEW t \in Tab, ResumeFails(t) PROVE StoredIsKnown'
  BY <1>11 DEF ResumeFails, rowVars, tabVars, callVars
<1>12. ASSUME NEW t \in Tab, SignOut(t) PROVE StoredIsKnown'
  BY <1>12 DEF SignOut, rowVars, tabVars, callVars
<1>13. ASSUME NEW t \in Tab, Revoke(t) PROVE StoredIsKnown'
  BY <1>13 DEF Revoke, rowVars, tabVars, callVars
<1>14. ASSUME NEW t \in Tab, SignedOut(t) \/ Leave(t) PROVE StoredIsKnown'
  BY <1>14 DEF SignedOut, Leave, PageGoes, rowVars, tabVars, callVars
<1>15. ASSUME NEW t \in Tab, NEW l \in Login, SignIn(t, l) PROVE StoredIsKnown'
  BY <1>15 DEF SignIn, Issue, rowVars, callVars
<1>16. CASE UNCHANGED vars
  BY <1>16 DEF vars, rowVars, tabVars, callVars
<1> HIDE DEF TypeOK, StoredIsKnown, SpentInv, StoredInv, CallInv
<1> QED
  BY <1>1, <1>2, <1>3, <1>4, <1>5, <1>6, <1>7,
     <1>8, <1>9, <1>10, <1>11, <1>12, <1>13, <1>14, <1>15, <1>16
     DEF Next, ServerStep, RequestStep

\* The strengthened invariant is inductive.
THEOREM InductiveInvariance == Spec => []IInv
<1>1. IInv /\ [Next]_vars => IInv'
  BY TypeStep, CallStep, StoredStep, SpentStep, RootStep, HeirStep, CauseStep, KnownStep
     DEF IInv
<1> QED BY <1>1, InitInv, PTL DEF Spec

\* The state of the server's table, the tabs and their requests keeps its shape.
THEOREM TypeInvariance == Spec => []TypeOK
<1>1. IInv => TypeOK
  BY DEF IInv
<1> QED BY <1>1, InductiveInvariance, PTL

\* However many requests of however many tabs present a pair, its login has at
\* most one that can be refreshed (refresh 84-112).
THEOREM OneLivePerLoginHolds == Spec => []OneLivePerLogin
<1>1. IInv => OneLivePerLogin
  BY DEF IInv, RootInv, HeirInv, OneLivePerLogin, Heir
<1> QED BY <1>1, InductiveInvariance, PTL

\* A tab never keeps a pair the server has forgotten for no reason.
THEOREM StoredIsKnownHolds == Spec => []StoredIsKnown
<1>1. IInv => StoredIsKnown
  BY DEF IInv
<1> QED BY <1>1, InductiveInvariance, PTL

\* The requests of one tab never have each other's refresh rejected (33-53).
THEOREM RejectedForCauseHolds == Spec => []RejectedForCause
<1>1. IInv => RejectedForCause
  BY DEF IInv, CauseInv, RejectedForCause
<1> QED BY <1>1, InductiveInvariance, PTL

\* No answer, rejection or reload leaves a request waiting (63-90).
THEOREM WaitersAreWokenHolds == Spec => []WaitersAreWoken
<1>1. IInv => WaitersAreWoken
  <2> SUFFICES ASSUME IInv, NEW r \in Request, at[r] = "waiting"
               PROVE  /\ promise[Owner[r]] # None
                      /\ call[promise[Owner[r]]] \in
                           {"posted", "signing", "answered", "rejected"}
    BY DEF WaitersAreWoken
  <2>1. Owner[r] \in Tab
    BY SessionsAssumption
  <2> QED BY <2>1 DEF IInv, TypeOK, CallInv, Of
<1> QED BY <1>1, InductiveInvariance, PTL

-----------------------------------------------------------------------------
(* The refinement of LoginChains.                                          *)

\* A pair worth a new one is the only such pair of the login it descends from.
LEMMA HeirOfLogin ==
  ASSUME IInv, NEW p \in Heir
  PROVE  p \in Pair /\ root[p] \in Login /\ Holder[root[p]] = {p}
<1> USE DEF IInv, TypeOK
<1>1. p \in Pair /\ root[p] # None
  BY SessionsAssumption DEF Heir, RootInv, SpentInv, CallInv
<1>2. root[p] \in Login
  BY <1>1
<1>3. \A q \in Heir : root[q] = root[p] => q = p
  BY DEF RootInv, HeirInv, Heir
<1> QED
  BY <1>1, <1>2, <1>3 DEF Holder

\* A pair that loses its row, none being issued, ends its login.
LEMMA LossEnds ==
  ASSUME IInv, UNCHANGED root, NEW p, Heir' = Heir \ {p}
  PROVE  Chains!Next \/ UNCHANGED <<Holder, Issued>>
<1>1. CASE p \in Heir
  <2>1. \A q \in Heir : root[q] = root[p] => q = p
    BY <1>1, HeirOfLogin DEF Holder
  <2>2. Holder' = [Holder EXCEPT ![root[p]] = {}]
    BY <1>1, <2>1 DEF Holder
  <2>3. Chains!End(root[p])
    BY <1>1, <2>2, HeirOfLogin DEF Chains!End, Issued
  <2> QED
    BY <1>1, <2>3, HeirOfLogin DEF Chains!Next
<1>2. CASE p \notin Heir
  BY <1>2 DEF Holder, Issued
<1> QED
  BY <1>1, <1>2

\* A step that leaves the rows, their roots and the refreshes alone changes nothing.
LEMMA ChainFrame ==
  ASSUME UNCHANGED root, Heir' = Heir
  PROVE  UNCHANGED <<Holder, Issued>>
  BY DEF Holder, Issued

\* The first half of a refresh moves the pair from the table to the refresh.
LEMMA RotateKeepsHeir ==
  ASSUME IInv, NEW r \in Request, Rotate(r)
  PROVE  Heir' = Heir /\ UNCHANGED root
<1>1. spent[r] \in live => \A q \in Request : call[q] = "signing" => spent[q] # spent[r]
  BY DEF IInv, RootInv
<1>2. \A p \in Heir' : p \in Heir
  BY <1>1 DEF IInv, TypeOK, Rotate, Heir
<1>3. \A p \in Heir : p \in Heir'
  BY <1>1 DEF IInv, TypeOK, Rotate, Heir
<1> QED
  BY <1>2, <1>3 DEF Rotate

\* The second half hands the login on to the new pair.
LEMMA AnswerRenews ==
  ASSUME IInv, NEW r \in Request, Answer(r)
  PROVE  Chains!Renew(root[spent[r]], r) /\ root[spent[r]] \in Login
<1> DEFINE l == root[spent[r]]
<1>1. spent[r] \in Heir
  BY DEF Answer, Heir
<1>2. spent[r] \in Pair /\ l \in Login /\ Holder[l] = {spent[r]}
  BY <1>1, HeirOfLogin
<1>3. r \in Pair /\ root[r] = None /\ root' = [root EXCEPT ![r] = l]
  BY DEF Answer, Issue, IInv, RootInv, Pair
<1>4. Heir' = (Heir \ {spent[r]}) \cup {r}
  <2>1. live' = live \cup {r} /\ spent' = spent /\ call' = [call EXCEPT ![r] = "answered"]
    BY DEF Answer, Issue
  <2>2. spent[r] \notin live /\ \A q \in Request : call[q] = "signing" /\ spent[q] = spent[r] => q = r
    BY DEF Answer, IInv, RootInv
  <2> QED
    BY <2>1, <2>2 DEF Heir, Answer, IInv, TypeOK
<1>5. Issued' = Issued \cup {r} /\ r \notin Issued
  BY <1>2, <1>3, SessionsAssumption DEF Issued, IInv, TypeOK
<1>6. Holder' = [Holder EXCEPT ![l] = {r}]
  <2>1. \A q \in Heir : q # r /\ (root[q] = l => q = spent[r])
    BY <1>1, <1>2, <1>3, HeirOfLogin, SessionsAssumption DEF Holder
  <2>2. \A q \in Heir : q \in Pair
    BY HeirOfLogin
  <2>3. \A q \in Heir' : root'[q] = IF q = r THEN l ELSE root[q]
    BY <1>3, <1>4, <2>2 DEF IInv, TypeOK
  <2>4. {q \in Heir' : root'[q] = l} = {r}
    BY <1>4, <2>1, <2>3
  <2>5. \A m \in Login : m # l => {q \in Heir' : root'[q] = m} = {q \in Heir : root[q] = m}
    BY <1>2, <1>4, <2>1, <2>3 DEF Holder
  <2> QED
    BY <1>2, <2>4, <2>5 DEF Holder
<1>7. Holder[l] # {}
  BY <1>2
<1> QED
  BY <1>2, <1>5, <1>6, <1>7 DEF Chains!Renew, Chains!Grant

\* A login opens its chain.
LEMMA SignInOpens ==
  ASSUME IInv, NEW t \in Tab, NEW l \in Login, SignIn(t, l)
  PROVE  Chains!Open(l)
<1>1. l \in Pair /\ root[l] = None /\ root' = [root EXCEPT ![l] = l]
  BY DEF SignIn, Issue, Pair
<1>2. Heir' = Heir \cup {l}
  BY DEF SignIn, Issue, Heir, callVars
<1>3. Issued' = Issued \cup {l} /\ l \notin Issued
  BY <1>1, SessionsAssumption DEF Issued, IInv, TypeOK
<1>4. Holder' = [Holder EXCEPT ![l] = {l}]
  <2>1. \A q \in Heir : q \in Pair /\ q # l /\ root[q] # l
    BY <1>1, HeirOfLogin, SessionsAssumption DEF IInv, RootInv
  <2>2. \A q \in Heir' : root'[q] = IF q = l THEN l ELSE root[q]
    BY <1>1, <1>2, <2>1 DEF IInv, TypeOK
  <2> QED
    BY <1>2, <2>1, <2>2 DEF Holder
<1> QED
  BY <1>3, <1>4 DEF Chains!Open, Chains!Grant

\* The steps that neither issue nor delete.
LEMMA OthersKeepHeir ==
  ASSUME IInv, NEW r \in Request, RequestStep(r) \/ Send(r) \/ AnswerLost(r)
  PROVE  Heir' = Heir /\ UNCHANGED root
<1> USE DEF IInv, TypeOK, CallInv, Heir, rowVars, callVars
<1>1. CASE Done(r) \/ Send(r) \/ AnswerLost(r)
  BY <1>1 DEF Done, Send, AnswerLost
<1>2. CASE Settle(r) \/ Rejected(r)
  BY <1>2 DEF Settle, Rejected
<1>3. CASE Refused(r)
  <2>1. at[r] = "sent" /\ call[r] = "none"
    BY <1>3 DEF Refused
  <2>2. UNCHANGED <<live, root>>
    BY <1>3 DEF Refused
  <2>3. \/ UNCHANGED <<call, spent>>
        \/ /\ call' = [call EXCEPT ![r] = "posted"]
           /\ spent' = [spent EXCEPT ![r] = stored]
    BY <1>3 DEF Refused
  <2> QED
    BY <2>1, <2>2, <2>3
<1> QED
  BY <1>1, <1>2, <1>3 DEF RequestStep

\* Refreshes cut in two, expiries, logouts and lost answers implement the chains
\* of LoginChains (refresh and logout 86-123).
THEOREM ImplementsChainsHolds == Spec => ImplementsChains
<1>1. Init => Chains!Init
  BY DEF Init, Chains!Init, Holder, Issued, Heir
<1>2. IInv /\ [Next]_vars => [Chains!Next]_<<Holder, Issued>>
  <2> SUFFICES ASSUME IInv, [Next]_vars PROVE Chains!Next \/ UNCHANGED <<Holder, Issued>>
    OBVIOUS
  <2>1. ASSUME NEW r \in Request, Rotate(r) PROVE UNCHANGED <<Holder, Issued>>
    BY <2>1, RotateKeepsHeir, ChainFrame
  <2>2. ASSUME NEW r \in Request, Answer(r) PROVE Chains!Next
    <3>1. r \in Pair \ Login
      BY SessionsAssumption DEF Pair
    <3> QED
      BY <2>2, <3>1, AnswerRenews DEF Chains!Next
  <2>3. ASSUME NEW t \in Tab, NEW l \in Login, SignIn(t, l) PROVE Chains!Next
    BY <2>3, SignInOpens DEF Chains!Next
  <2>4. ASSUME NEW p \in Pair, RowExpires(p)
        PROVE  Chains!Next \/ UNCHANGED <<Holder, Issued>>
    <3>1. \A q \in Request : call[q] = "signing" => spent[q] # p
      BY <2>4 DEF RowExpires, IInv, RootInv
    <3>2. Heir' = Heir \ {p} /\ UNCHANGED root
      BY <2>4, <3>1 DEF RowExpires, Heir, callVars
    <3> QED
      BY <3>2, LossEnds
  <2>5. ASSUME NEW t \in Tab, Revoke(t)
        PROVE  Chains!Next \/ UNCHANGED <<Holder, Issued>>
    <3>1. CASE leaving[t] \in live
      <4>1. \A q \in Request : call[q] = "signing" => spent[q] # leaving[t]
        BY <3>1 DEF IInv, RootInv
      <4>2. Heir' = Heir \ {leaving[t]} /\ UNCHANGED root
        BY <2>5, <4>1 DEF Revoke, Heir, callVars
      <4> QED
        BY <4>2, LossEnds
    <3>2. CASE leaving[t] \notin live
      <4>1. Heir' = Heir /\ UNCHANGED root
        BY <2>5, <3>2 DEF Revoke, Heir, callVars
      <4> QED
        BY <4>1, ChainFrame
    <3> QED
      BY <3>1, <3>2
  <2>6. ASSUME NEW r \in Request, RequestStep(r) \/ Send(r) \/ AnswerLost(r)
        PROVE  UNCHANGED <<Holder, Issued>>
    BY <2>6, OthersKeepHeir, ChainFrame
  <2>7. ASSUME NEW t \in Tab, Resume(t) \/ ResumeFails(t) \/ SignOut(t) \/ SignedOut(t) \/ Leave(t)
        PROVE  UNCHANGED <<Holder, Issued>>
    <3>1. Heir' = Heir /\ UNCHANGED root
      BY <2>7 DEF Resume, ResumeFails, SignOut, SignedOut, Leave, Heir, rowVars, callVars
    <3> QED
      BY <3>1, ChainFrame
  <2>8. CASE UNCHANGED vars
    <3>1. Heir' = Heir /\ UNCHANGED root
      BY <2>8 DEF vars, Heir, rowVars, callVars
    <3> QED
      BY <3>1, ChainFrame
  <2> QED
    BY <2>1, <2>2, <2>3, <2>4, <2>5, <2>6, <2>7, <2>8 DEF Next, ServerStep
<1> QED
  BY <1>1, <1>2, InductiveInvariance, PTL DEF Spec, ImplementsChains, Chains!Spec
=============================================================================
