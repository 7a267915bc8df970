----------------------------- MODULE MCBackoffice -----------------------------
(* What the people behind the counter see to, side by side as in            *)
(* MCServices: the wallets (MCWallet), sign-in, and what the shop tells its *)
(* people.                                                                  *)
EXTENDS MCWallet, CabinetSessions, WebLogin, BotMenu, Notices, SupportDesk,
        Broadcasts, Backups, Arrivals, BotConfig, Integers, TLC

CONSTANTS e1, gi, vk

VARIABLE part

MCBuiltIns == <<"balance", "app", "back">>
MCSysButtons == <<"url", "menu">>
MCVouched == (gi :> e1) @@ (vk :> NoMail)
MCFirstEnd == (1 :> 2) @@ (2 :> 1)

Backoffice ==
    <<vars, sessionVars, loginVars, menuVars, noticeVars, deskVars,
      castVars, backupVars, arrivalVars, configVars>>

MCInit ==
    /\ part \in {"books", "cabinet", "login", "menu", "notices", "desk",
                 "casts", "backups", "arrivals", "config"}
    /\ Init /\ CabinetInit /\ WebLoginInit /\ BotMenuInit /\ NoticesInit
    /\ DeskInit /\ BroadcastsInit /\ BackupsInit /\ ArrivalsInit
    /\ BotConfigInit
    /\ part # "menu" => stored.cabinet = <<>>

MCNext ==
    \/ /\ part = "books" /\ Next
       /\ UNCHANGED <<part, sessionVars, loginVars, menuVars, noticeVars,
                      deskVars, castVars, backupVars, arrivalVars,
                      configVars>>
    \/ /\ part = "cabinet" /\ CabinetNext
       /\ UNCHANGED <<part, vars, loginVars, menuVars, noticeVars, deskVars,
                      castVars, backupVars, arrivalVars, configVars>>
    \/ /\ part = "login" /\ WebLoginNext
       /\ UNCHANGED <<part, vars, sessionVars, menuVars, noticeVars,
                      deskVars, castVars, backupVars, arrivalVars,
                      configVars>>
    \/ /\ part = "menu" /\ BotMenuNext
       /\ UNCHANGED <<part, vars, sessionVars, loginVars, noticeVars,
                      deskVars, castVars, backupVars, arrivalVars,
                      configVars>>
    \/ /\ part = "notices" /\ NoticesNext
       /\ UNCHANGED <<part, vars, sessionVars, loginVars, menuVars,
                      deskVars, castVars, backupVars, arrivalVars,
                      configVars>>
    \/ /\ part = "desk" /\ DeskNext
       /\ UNCHANGED <<part, vars, sessionVars, loginVars, menuVars,
                      noticeVars, castVars, backupVars, arrivalVars,
                      configVars>>
    \/ /\ part = "casts" /\ BroadcastsNext
       /\ UNCHANGED <<part, vars, sessionVars, loginVars, menuVars,
                      noticeVars, deskVars, backupVars, arrivalVars,
                      configVars>>
    \/ /\ part = "backups" /\ BackupsNext
       /\ UNCHANGED <<part, vars, sessionVars, loginVars, menuVars,
                      noticeVars, deskVars, castVars, arrivalVars,
                      configVars>>
    \/ /\ part = "arrivals" /\ ArrivalsNext
       /\ UNCHANGED <<part, vars, sessionVars, loginVars, menuVars,
                      noticeVars, deskVars, castVars, backupVars,
                      configVars>>
    \/ /\ part = "config" /\ BotConfigNext
       /\ UNCHANGED <<part, vars, sessionVars, loginVars, menuVars,
                      noticeVars, deskVars, castVars, backupVars,
                      arrivalVars>>

MCSpec == MCInit /\ [][MCNext]_<<part, Backoffice>>

-----------------------------------------------------------------------------
(* The cabinet's sessions descend from one login each and end with it       *)
(* (CabinetSessions), its doors lead to one account each (WebLogin), and    *)
(* whoever comes for the first time is let in once (Arrivals).              *)
SignInHolds ==
    /\ part = "cabinet" => SessionsDoNotFork
    /\ part = "login" => DoorsLeadHome
    /\ part = "arrivals" => NewcomersHold

(* What the owner saves is what the bot shows: the cabinet's buttons, every *)
(* screen's own, and a menu in one piece (BotMenu).                         *)
ScreensAreAsSaved ==
    part = "menu" => WhatIsSavedIsShown /\ NothingVanishes /\ MenuIsWhole

(* The back office is in order.  No notice comes twice or is missed, and no *)
(* spent offer comes back (Notices).  Nobody who writes to the support is   *)
(* left alone but by a lost call (SupportDesk), the books of a broadcast    *)
(* are right (Broadcasts), the archives of the database are kept and leave  *)
(* the host (Backups), and a parameter is what was saved CACHE_TTL ago or   *)
(* later (BotConfig).                                                       *)
OfficeInOrder ==
    /\ part = "notices" => NoticesHold
    /\ part = "desk" => NobodyLeftAlone
    /\ part = "casts" => CastAddsUp
    /\ part = "backups" => BackupsHold
    /\ part = "config" => ConfigIsRecent
=============================================================================
