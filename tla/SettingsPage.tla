---------------------------- MODULE SettingsPage ----------------------------
(***************************************************************************)
(* The settings page: its tabs (Settings) and, in its connection panel and      *)
(* the client cache behind it (Override), a part that shares no state with      *)
(* them.  A behaviour is one of one of them, so that their states add up         *)
(* instead of multiplying.                                                    *)
(***************************************************************************)
EXTENDS Settings

CONSTANTS Tabs, Owned, Others, Env, CacheMax, TTL, MaxSaves, MaxTime

VARIABLES
  page,      \* the part of the page the behaviour is about
  pRows, pNext, panel, wanted, pCrossed, config, clients, call, recent, saves, now

Panel == INSTANCE Override WITH rows <- pRows, next <- pNext, crossed <- pCrossed

ASSUME PanelAssumption == Panel!OverrideAssumption

panelVars == <<pRows, pNext, panel, wanted, pCrossed, config, clients, call, recent, saves, now>>

PageInit == page \in {"tabs", "panel"} /\ Init /\ Panel!Init

PageNext ==
  \/ page = "tabs" /\ Next /\ UNCHANGED <<page, panelVars>>
  \/ page = "panel" /\ Panel!Next /\ UNCHANGED <<page, vars>>

PageSpec == PageInit /\ [][PageNext]_<<page, vars, panelVars>>
-----------------------------------------------------------------------------
(* What is in force is what the user saved last, or the platform's connection after  *)
(* "use org default", as long as no two tabs were at it at once (Override).        *)
SavedIsInForce == Panel!SavedIsInForce

(* A call never goes out with the client of another account, nor for longer than     *)
(* the TTL with one of an old password (Override).                               *)
StaleWithinTTL == Panel!StaleWithinTTL

(* The cache keeps the accounts called last, never more than CacheMax (Override).    *)
KeepsTheRecent == Panel!KeepsTheRecent
=============================================================================
