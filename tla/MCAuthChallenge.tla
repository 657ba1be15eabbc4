-------------------------- MODULE MCAuthChallenge --------------------------
EXTENDS AuthChallenge, TLC

Screen(state, sms, actions) == [state |-> state, sms |-> sms, actions |-> actions]

\* The main window, a loading screen, and login screens that ask for a code or
\* offer the first ID, the second ID, or both at once (which is ambiguous).
MCScreens ==
    {Screen("ONLINE", FALSE, {}), Screen("STARTING", FALSE, {}),
     Screen("AUTH_REQUIRED", TRUE, {})} \cup
    {Screen("AUTH_REQUIRED", FALSE, A) : A \in (SUBSET Advert) \ {{}}}

Symmetry == Permutations(Handler) \cup Permutations(Id)

\* An answer matters in the step that gives it, and nothing depends on it.
Undelivered ==
    <<managerVars, lifeVars, viewVars, codeVars, actionVars, mon,
      pc, chal, id, key, res, history>>
=============================================================================
