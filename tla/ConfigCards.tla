---------------------------- MODULE ConfigCards ----------------------------
(***************************************************************************)
(* The cards of the panel's configs page (ui/configs.go), among the other  *)
(* editors of a config.  A card is a text to edit and a hidden version; as *)
(* a rule the text is the stored document of that version.  A save whose   *)
(* text is not JSON comes back as a card with the text as it was typed.    *)
(***************************************************************************)
EXTENDS Editors

VARIABLES
    seen,    \* seen[e]: the row whose document e was last shown
    author   \* the editors who wrote the document that is stored; history

cardVars == <<vars, seen, author>>

\* updateConfig with a text that is not JSON: GetConfig, and a card of the row as it
\* is now around the text as it was typed.  A config that is gone is an error, which
\* leaves the card alone.
RejectedSave(e) ==
    /\ Idle(e)
    /\ Exists(page[e]) /\ Exists(row)
    /\ page' = [page EXCEPT ![e] = row]
    /\ accepted' = NoWrite
    /\ UNCHANGED <<row, created, request, seen, author>>

\* The page, or a GET, shows the document that is stored.
Open(e) ==
    /\ Look(e)
    /\ seen' = [seen EXCEPT ![e] = row]
    /\ UNCHANGED author

\* An answer that renders the record anew shows its document as well.
Shows(e) ==
    /\ seen' = IF page' = page THEN seen ELSE [seen EXCEPT ![e] = page'[e]]
    /\ author' = IF row' = row THEN author ELSE {e}

AskConfig(e) ==
    /\ \/ \E verb \in {"create", "put", "delete"}, value \in BOOLEAN : Ask(e, verb, value)
       \/ GiveUp(e)
    /\ Shows(e)

\* createConfig, updateConfig with JSON, and deleteConfig, of the panel and of the API.
CreateConfig(e) == Create(e) /\ Shows(e)
UpdateConfig(e) == Put(e) /\ Shows(e)
DeleteConfig(e) == Delete(e) /\ Shows(e)

CardInit == Init /\ seen = page /\ author = {}

CardNext == \E e \in Editors :
    \/ Open(e) \/ AskConfig(e) \/ RejectedSave(e)
    \/ CreateConfig(e) \/ UpdateConfig(e) \/ DeleteConfig(e)

CardSpec == CardInit /\ [][CardNext]_cardVars
-----------------------------------------------------------------------------
(* Properties *)

\* README, Admin panel: "expectedVersion prevents overwriting someone else's change":
\* a document that somebody else stored is replaced only by an editor who was shown
\* it, while the config was not deleted and made again.
SavesOverWhatWasShown ==
    [][\A e \in Editors :
          /\ Put(e) /\ row' # row
          /\ row.life = seen[e].life
          /\ e \notin author
          => row.value = seen[e].value]_cardVars
=============================================================================
