----------------------------- MODULE MCBrowser -----------------------------
(***************************************************************************)
(* What the dashboard keeps in the browser: the session and the cart.      *)
(* They share no state, so a behaviour is one of either while the other    *)
(* stays at its initial state: kept names the one that moves.              *)
(***************************************************************************)
EXTENDS SessionTokens, CartTabs

VARIABLE kept

browserVars == <<sessionVars, cartVars, kept>>

BrowserInit == SessionInit /\ CartInit /\ kept \in {"session", "cart"}

BrowserNext ==
  /\ \/ kept = "session" /\ SessionNext /\ UNCHANGED cartVars
     \/ kept = "cart" /\ CartNext /\ UNCHANGED sessionVars
  /\ UNCHANGED kept

\* SessionFairness, where the session is what moves.
BrowserFairness ==
  /\ WF_sessionVars(kept = "session" /\ Expire)
  /\ WF_sessionVars(kept = "session" /\ (ServeRefresh \/ LoseRefresh))
  /\ WF_sessionVars(kept = "session" /\ SettleRefresh)
  /\ WF_sessionVars(kept = "session" /\ (ServeLogin \/ ChangePassword \/ Enter \/ LoseForm))

BrowserSpec == BrowserInit /\ [][BrowserNext]_browserVars /\ BrowserFairness

BrowserTypeOK == SessionTypeOK /\ CartTypeOK
=============================================================================
