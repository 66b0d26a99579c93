---------------------------- MODULE ApiKeysPage ----------------------------
(***************************************************************************)
(* The API keys of an organisation: their table, the handlers of the API   *)
(* and the page of the dashboard that creates, shows and revokes them.     *)
(*                                                                         *)
(* A handler of the page awaits the change, if it makes one, and then the  *)
(* list.  What the server does and what the page makes of the answer are   *)
(* two steps, so answers arrive in any order, and the browser may report a *)
(* failure although the server has done its part.                          *)
(***************************************************************************)
EXTENDS Naturals

CONSTANTS
    MaxKeys,    \* bound: keys ever created, numbered in order
    Call,       \* bound: handlers of the page suspended at the same time
    NoKey       \* no key: nothing shown, nothing asked for

Key == 1..MaxKeys

ASSUME KeysAssumption == MaxKeys \in Nat /\ NoKey \notin Key

VARIABLES
    table,      \* api_keys: not created, active or revoked
    page,       \* the state of SettingsPage
    calls,      \* its suspended handlers
    disturbed   \* history: the last handler was not alone, or not answered

keysVars == <<table, page, calls, disturbed>>

NoKeys == [k \in Key |-> "none"]
NoCall == [kind |-> "none", key |-> NoKey, listing |-> FALSE, served |-> FALSE,
           result |-> "ok", rows |-> NoKeys, mounted |-> FALSE]

\* SettingsPage when it has just been mounted; its load is in flight.
Fresh == [loading |-> TRUE, keys |-> NoKeys, showCreate |-> FALSE, named |-> FALSE,
          creating |-> FALSE, newKey |-> NoKey, revoking |-> NoKey]
Load  == [NoCall EXCEPT !.kind = "load", !.listing = TRUE, !.mounted = TRUE]

InFlight == {c \in Call : calls[c].kind # "none"}

KeysInit ==
    /\ \E m \in 0..MaxKeys : table = [k \in Key |-> IF k <= m THEN "active" ELSE "none"]
    /\ page = Fresh
    /\ \E c \in Call : calls = [d \in Call |-> IF d = c THEN Load ELSE NoCall]
    /\ disturbed = FALSE

(* ------------------------------- server -------------------------------- *)

\* The statement behind each endpoint.  A revocation of a key that is revoked
\* already finds no row (404).
Create(k) ==
    /\ table[k] = "none" /\ \A l \in 1..(k - 1) : table[l] # "none"
    /\ table' = [table EXCEPT ![k] = "active"]

Revoke(k) == table[k] = "active" /\ table' = [table EXCEPT ![k] = "revoked"]

Respond(c, k, result, rows) ==
    calls' = [calls EXCEPT ![c] = [@ EXCEPT !.served = TRUE, !.key = k, !.result = result,
                                            !.rows = rows]]

\* A list request is answered with the rows, refused, or lost.
ServeList(c) ==
    /\ calls[c].listing
    /\ \/ Respond(c, NoKey, "ok", table)
       \/ \E result \in {"refused", "failed"} : Respond(c, NoKey, result, NoKeys)
    /\ UNCHANGED table

\* A change is made, whether or not its answer arrives; or it is refused or lost,
\* which the page takes for the same.
ServeChange(c) ==
    /\ ~calls[c].listing
    /\ \/ Respond(c, NoKey, "failed", NoKeys) /\ UNCHANGED table
       \/ \E k \in Key :
            /\ \/ calls[c].kind = "create" /\ Create(k)
               \/ calls[c].kind = "revoke" /\ k = calls[c].key /\ Revoke(k)
            /\ Respond(c, k, "ok", NoKeys) \/ Respond(c, NoKey, "failed", NoKeys)

Serve(c) ==
    /\ calls[c].kind # "none" /\ ~calls[c].served
    /\ ServeList(c) \/ ServeChange(c)
    /\ disturbed' = (disturbed \/ calls'[c].result # "ok")
    /\ UNCHANGED page

\* Another member, or another tab, creates or revokes a key.
Elsewhere ==
    /\ \E k \in Key : Create(k) \/ Revoke(k)
    /\ disturbed' = TRUE
    /\ UNCHANGED <<page, calls>>

(* --------------------------- answers on the page ----------------------- *)

\* The creation is answered: the key is shown, and the dialog closed.
ShowKey(p, k) == [p EXCEPT !.newKey = k, !.showCreate = FALSE, !.named = FALSE]

\* The mistake of enabling the button only after a success.
Finally_OnSuccess(p, call) ==
    CASE call.kind = "create" /\ call.result = "ok" -> [p EXCEPT !.creating = FALSE]
      [] call.kind = "revoke" -> [p EXCEPT !.revoking = NoKey]
      [] OTHER -> p

\* The finally of the handlers, whatever became of their requests.
Finally(p, call) ==
    CASE call.kind = "create" -> [p EXCEPT !.creating = FALSE]
      [] call.kind = "revoke" -> [p EXCEPT !.revoking = NoKey]
      [] OTHER -> p

\* The list shown: a refused request reads as no keys.  A failed one throws, and
\* if it is the page's first, "Loading..." stays.
ShowList(p, call) ==
    IF call.result = "failed" THEN p
    ELSE [p EXCEPT !.keys = IF call.result = "ok" THEN call.rows ELSE NoKeys,
                   !.loading = IF call.kind = "load" THEN FALSE ELSE @]

\* The mistake of leaving the list as it is after a revocation.
GoesOn_CreateOnly(call) == ~call.listing /\ call.result = "ok" /\ call.kind = "create"

\* A handler goes on to the list only if its change was answered with success.
GoesOn(call) == ~call.listing /\ call.result = "ok"

\* A handler resumes.  Updates of a page that has been left are ignored.
Settle(c) ==
    LET call == calls[c]
        told == call.kind = "create" /\ ~call.listing /\ call.result = "ok"
    IN  /\ call.kind # "none" /\ call.served
        /\ page' = IF ~call.mounted THEN page
                   ELSE LET p == IF told THEN ShowKey(page, call.key)
                                 ELSE IF call.listing THEN ShowList(page, call) ELSE page
                        IN  IF GoesOn(call) THEN p ELSE Finally(p, call)
        /\ calls' = [calls EXCEPT ![c] =
                        IF GoesOn(call)
                        THEN [@ EXCEPT !.key = NoKey, !.listing = TRUE, !.served = FALSE]
                        ELSE NoCall]
    /\ UNCHANGED <<table, disturbed>>

(* ------------------------------- the user ------------------------------ *)

Begin(c, kind, k) ==
    /\ calls[c].kind = "none"
    /\ calls' = [calls EXCEPT ![c] = [NoCall EXCEPT !.kind = kind, !.key = k, !.mounted = TRUE]]
    /\ disturbed' = (InFlight # {})
    /\ UNCHANGED table

\* The page is left and opened again: nothing of its state remains but the
\* handlers still suspended.
OpenPage ==
    /\ \E c \in Call :
        /\ calls[c].kind = "none"
        /\ calls' = [d \in Call |-> IF d = c THEN Load ELSE [calls[d] EXCEPT !.mounted = FALSE]]
    /\ page' = Fresh
    /\ disturbed' = (InFlight # {})
    /\ UNCHANGED table

\* The mistake of a button that only asks for a name.
handleCreate_Enabled(c) ==
    /\ page.showCreate /\ page.named
    /\ page' = [page EXCEPT !.creating = TRUE]
    /\ Begin(c, "create", NoKey)

\* "Create": the button is disabled without a name or while a key is created.
handleCreate(c) ==
    /\ page.showCreate /\ page.named /\ ~page.creating
    /\ page' = [page EXCEPT !.creating = TRUE]
    /\ Begin(c, "create", NoKey)

\* "Confirm" next to a key that is shown as active; it may be pressed twice.
handleRevoke(c) ==
    /\ page.revoking # NoKey /\ ~page.showCreate /\ ~page.loading
    /\ page.keys[page.revoking] = "active"
    /\ Begin(c, "revoke", page.revoking)
    /\ UNCHANGED page

\* The dialog is opened, its name typed, or it is cancelled: also while the key
\* is being created.
Dialog ==
    /\ \/ ~page.showCreate /\ page' = [page EXCEPT !.showCreate = TRUE]
       \/ page.showCreate /\ ~page.named /\ page' = [page EXCEPT !.named = TRUE]
       \/ page.showCreate /\ page' = [page EXCEPT !.showCreate = FALSE, !.named = FALSE]
    /\ UNCHANGED <<table, calls, disturbed>>

\* "Revoke" and "Cancel" in a row of the active keys.
AskRevoke ==
    /\ ~page.showCreate /\ ~page.loading
    /\ \E k \in {l \in Key : page.keys[l] = "active"} :
        page' = [page EXCEPT !.revoking = IF k = @ THEN NoKey ELSE k]
    /\ UNCHANGED <<table, calls, disturbed>>

\* "Dismiss" in the banner.
DismissKey ==
    /\ page.newKey # NoKey /\ ~page.showCreate
    /\ page' = [page EXCEPT !.newKey = NoKey]
    /\ UNCHANGED <<table, calls, disturbed>>

KeysNext ==
    \/ OpenPage \/ Dialog \/ AskRevoke \/ DismissKey \/ Elsewhere
    \/ \E c \in Call : handleCreate(c) \/ handleRevoke(c) \/ Serve(c) \/ Settle(c)

KeysSpec == KeysInit /\ [][KeysNext]_keysVars

\* Requests end, and handlers resume.
KeysFairSpec == KeysSpec /\ \A c \in Call : WF_keysVars(Serve(c)) /\ WF_keysVars(Settle(c))

(* ------------------------------ properties ----------------------------- *)

\* "Copy it now, you won't see it again": the banner holds one key, and the only
\* copy of it.  A late answer never puts an older key in the place of a newer
\* one the user has not dismissed, although the dialog can be cancelled, opened
\* again and submitted while a creation, or its list, is under way.
NewerKeyIsNotReplaced ==
    [][ (page.newKey # NoKey /\ page'.newKey # NoKey)
            => page'.newKey >= page.newKey ]_keysVars

\* Once every handler has ended, and the last one ran alone and was answered,
\* the page lists the keys as they are in the table.
ListIsCurrentWhenQuiet == InFlight = {} /\ ~disturbed => page.keys = table

\* The Create button is enabled again, whatever becomes of the two requests.
CreateEnds == page.creating ~> ~page.creating
=============================================================================
