----------------------------- MODULE RemoteSessions ----------------------------
(***************************************************************************)
(* The sessions of the web remote                                          *)
(* (src/helper/webserver/webserver.cpp) with their copies: the tokens the  *)
(* server holds in memory, those in the settings, in the window page's     *)
(* copy of the settings, in the config file (ConfigStore) and in the       *)
(* cookies of the devices; across logins, resets, settings changes, exits, *)
(* crashes and restarts.                                                   *)
(*                                                                         *)
(* One saver is the main thread, which serves the window and the tray and  *)
(* saves at the exit; the others are threads of the HTTP pool.             *)
(***************************************************************************)
EXTENDS ConfigStore, FiniteSets

CONSTANTS
  Devices,  \* browsers that log in
  MaxTokens \* bound: tokens issued in a behaviour

Tokens == 1..MaxTokens
NoToken == 0
ASSUME TokensAssumption == MaxTokens \in Nat /\ Values = SUBSET Tokens
ASSUME MainAssumption == "main" \in Savers

Pool == Savers \ {"main"}

VARIABLES
  phase,      \* "off", "on", then the saves of the exit: "closing", "ending", "stopped"
  issued,     \* tokens issued so far
  valid,      \* validTokens
  authorized, \* gSettings.authorizedTokens
  page,       \* the token list in the page's copy of the settings
  login,      \* login[t] = [device, token] the pool thread t is to answer with
  cookie,     \* the token each device has kept
  reset,      \* history: the tokens that were reset
  lost        \* history: those the page's settings overwrote, whose save failed, or
              \* that were not in a marred file when the program ended

sessionVars == <<phase, issued, valid, authorized, page, login, cookie, reset, lost>>
vars == <<storeVars, sessionVars>>

NoLogin == [device |-> "none", token |-> NoToken]

TypeOK ==
  /\ StoreTypeOK
  /\ phase \in {"off", "on", "closing", "ending", "stopped"}
  /\ issued \in 0..MaxTokens
  /\ {valid, authorized, page, reset, lost} \subseteq SUBSET Tokens
  /\ login \in [Pool -> [device : Devices \cup {"none"}, token : Tokens \cup {NoToken}]]
  /\ cookie \in [Devices -> Tokens \cup {NoToken}]

Init ==
  /\ StoreInit
  /\ phase = "off" /\ issued = 0
  /\ valid = {} /\ authorized = {} /\ page = {} /\ reset = {} /\ lost = {}
  /\ login = [t \in Pool |-> NoLogin]
  /\ cookie = [d \in Devices |-> NoToken]

-------------------------------------------------------------------------------
(* The program's start and end *)

\* What load makes of the file: without one, or with one it cannot read, the
\* defaults.
Loads == IF PathText.text = "whole" THEN PathText.value ELSE {}

\* main: load, and the constructor of WebServer, whose loadPersistedTokens fills
\* validTokens.
Start ==
  /\ phase = "off"
  /\ phase' = "on"
  /\ authorized' = Loads /\ valid' = Loads /\ page' = Loads
  /\ UNCHANGED <<storeVars, issued, login, cookie, reset, lost>>

\* The process is gone, with everything but the files and the devices' cookies.
Gone ==
  /\ SaversGone
  /\ phase' = "off"
  /\ valid' = {} /\ authorized' = {} /\ page' = {}
  /\ login' = [t \in Pool |-> NoLogin]
  /\ lost' = IF marred THEN lost \cup (authorized \ Loads) ELSE lost
  /\ UNCHANGED <<issued, cookie, reset>>

Crash == phase # "off" /\ Gone

\* The saves of the exit: onClose, unless the tray ended the program; the end of
\* mainLoop; and main's, with the web server stopped.
NextSave == [off |-> {}, on |-> {"closing", "ending"}, closing |-> {"ending"},
             ending |-> {"stopped"}, stopped |-> {}]
ExitSave ==
  /\ Ask("main")
  /\ phase' \in NextSave[phase]
  /\ phase' = "stopped" => \A t \in Pool : SaverAt(t, "idle")
  /\ UNCHANGED <<issued, valid, authorized, page, login, cookie, reset, lost>>

\* The last of them returned.
Exit ==
  /\ phase = "stopped"
  /\ SaveReturned("main")
  /\ Gone

-------------------------------------------------------------------------------
(* The web server *)

\* Until main stops it, which waits for the threads of the pool.
Serving == phase \in {"on", "closing", "ending"}

\* POST /api/auth/login with the right PIN: generateToken inserts the token in the
\* set and the list under tokensMutex, and calls for a save.
GenerateToken(t, d) ==
  /\ Serving /\ issued < MaxTokens
  /\ Ask(t)
  /\ issued' = issued + 1
  /\ valid' = valid \cup {issued + 1}
  /\ authorized' = authorized \cup {issued + 1}
  /\ login' = [login EXCEPT ![t] = [device |-> d, token |-> issued + 1]]
  /\ UNCHANGED <<phase, page, cookie, reset, lost>>

\* saveSettingsImmediately: the settings of now are dumped.
\* Mutant: gConfig as it was loaded.
SaveSettingsLoaded(t) ==
  /\ phase # "off"
  /\ Dump(t, Loads)
  /\ UNCHANGED sessionVars
SaveSettings(t) ==
  /\ phase # "off"
  /\ Dump(t, authorized)
  /\ UNCHANGED sessionVars

\* A step of a save.  Of one that fails the caller hears nothing: unless another
\* one comes after it, its new tokens are not in the file.
Saves(t) ==
  /\ SaveStep(t)
  /\ lost' = IF saver'[t].at = "failed" /\ ~marred THEN lost \cup (saver[t].value \ Loads)
             ELSE lost
  /\ UNCHANGED <<phase, issued, valid, authorized, page, login, cookie, reset>>

\* The answer to the login, with the cookie.
\* Mutant: answers before the save.
AnswerEarly(t) ==
  /\ t \in Pool /\ ~SaverAt(t, "idle")
  /\ cookie' = [cookie EXCEPT ![login[t].device] = login[t].token]
  /\ UNCHANGED <<storeVars, phase, issued, valid, authorized, page, login, reset, lost>>
Answer(t) ==
  /\ t \in Pool
  /\ SaveReturns(t)
  /\ cookie' = [cookie EXCEPT ![login[t].device] = login[t].token]
  /\ login' = [login EXCEPT ![t] = NoLogin]
  /\ UNCHANGED <<phase, issued, valid, authorized, page, reset, lost>>

\* POST /api/auth/logout: it never finds a token to remove, and expires the cookie.
Logout(d) ==
  /\ Serving
  /\ cookie' = [cookie EXCEPT ![d] = NoToken]
  /\ UNCHANGED <<storeVars, phase, issued, valid, authorized, page, login, reset, lost>>

\* isValidToken.
IsValid(token) == token \in valid \cup authorized

-------------------------------------------------------------------------------
(* The window *)

\* clearAllTokens, from the tray.
ClearAllTokens ==
  /\ phase = "on"
  /\ valid \cup authorized # {}
  /\ Ask("main")
  /\ valid' = {} /\ authorized' = {}
  /\ reset' = reset \cup valid \cup authorized
  /\ UNCHANGED <<phase, issued, page, login, cookie, lost>>

\* changeSettings: the page's copy replaces gSettings, and is not saved.
ChangeSettings ==
  /\ phase = "on" /\ SaverAt("main", "idle")
  /\ authorized' = page
  /\ lost' = lost \cup (authorized \ page)
  /\ UNCHANGED <<storeVars, phase, issued, valid, page, login, cookie, reset>>

\* onSettingsChanged sends gSettings to the page.
OnSettingsChanged ==
  /\ Serving
  /\ page' = authorized
  /\ UNCHANGED <<storeVars, phase, issued, valid, authorized, login, cookie, reset, lost>>

\* The main thread goes on after a save.
MainReturns ==
  /\ phase # "stopped"
  /\ SaveReturns("main")
  /\ UNCHANGED sessionVars

Next ==
  \/ Start \/ Crash \/ ExitSave \/ Exit
  \/ \E t \in Pool, d \in Devices : GenerateToken(t, d)
  \/ \E t \in Savers : SaveSettings(t) \/ Saves(t) \/ Answer(t)
  \/ \E d \in Devices : Logout(d)
  \/ ClearAllTokens \/ ChangeSettings \/ OnSettingsChanged \/ MainReturns

Spec == Init /\ [][Next]_vars

\* The behaviours in which no two saves overlap.
SerialSpec == Init /\ [][Next /\ crossing' = {}]_vars

-------------------------------------------------------------------------------
(* Properties *)

\* Whenever the program ends, be it between two steps of a save, the config file is
\* whole or not there yet, the reason for the temporary file (config.cpp:44),
\* unless saves overlapped, or the rename failed and the copy in its place did not
\* come to its end; and the next save that is alone mends it.
ConfigWhole == PathText = Partial => marred

\* Devices that are not logged in have NoToken.
Forgotten == reset \cup lost \cup {NoToken}

\* A device that was given its cookie is remembered: its token is in the file that
\* the next start reads, even if the program crashes right after the answer, unless
\* sessions were reset, the page's settings overwrote it, or the save failed.  A file
\* that overlapping saves or an unfinished copy marred may lack it until a save that
\* is alone, or for good if the program ends before.
LoginIsDurable ==
  ~marred =>
    \A d \in Devices :
      cookie[d] \notin Forgotten => PathText.text = "whole" /\ cookie[d] \in PathText.value

\* While the program runs, now or after a restart, the server accepts the token of
\* every device whose login was neither reset nor lost.
SessionsAccepted ==
  phase # "off" => \A d \in Devices : cookie[d] \notin Forgotten => IsValid(cookie[d])

\* A device is remembered until it logs out or the sessions are reset
\* (README.md:38).
RememberedUntilReset ==
  phase # "off" => \A d \in Devices : cookie[d] \notin reset \cup {NoToken} => IsValid(cookie[d])

\* An exit whose last save did not fail, which comes when no other one is left,
\* whatever overlapped before it, leaves the tokens of the settings in the
\* file, nothing less (a login) and nothing more (a reset).
ExitSavesSessions ==
  [][phase = "stopped" /\ phase' = "off" /\ SaverAt("main", "saved")
       => PathText.text = "whole" /\ PathText.value = authorized]_vars

===============================================================================
