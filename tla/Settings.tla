------------------------------ MODULE Settings ------------------------------
(***************************************************************************)
(* The Settings page: one row of organizations, edited as several forms    *)
(* that are each saved on their own, by several owners at a time.          *)
(*                                                                         *)
(*   org    the row, one value for the fields of each section;             *)
(*   page   each browser session: its forms, the organization it has       *)
(*          fetched (['admin', 'organization'] in its query cache), and    *)
(*          its saves on their way;                                        *)
(*   saver  who saved each section last.                                   *)
(*                                                                         *)
(* The forms are component state that starts blank.  An effect copies the  *)
(* fetched organization into all of them whenever it changes, whatever has *)
(* been typed there; a fetch that brings nothing new leaves them alone.    *)
(* A PATCH names the columns of its own section only.  The clock page      *)
(* fetches the same key, so the organization may be there already when the *)
(* page opens.  A page stays open here; the store locations, in tables of  *)
(* their own, are left out.                                                *)
(***************************************************************************)
EXTENDS Naturals

CONSTANTS
    Owner,          \* browser sessions of users who may edit settings
    Section,        \* the sections of the page
    Value,          \* what a section may hold
    Stored,         \* the value every section has at first
    Blank,          \* what an untouched form sends, and nobody chooses
    MaxClicks,      \* bound: changes typed into forms, and clicks on Save
    MaxFetches,     \* bound: fetches by a page's opening, and failed ones
    Nothing

ASSUME SettingsAssumption ==
    /\ Section \subseteq {"organization", "compliance", "verification", "payroll"}
    /\ {Stored, Blank} \subseteq Value
    /\ MaxClicks \in Nat /\ MaxFetches \in Nat
    /\ Stored # Blank
    /\ Nothing \notin Value \cup Owner \cup [Section -> Value]

VARIABLES org, page, saver, clicks, fetches

settingsVars == <<org, page, saver, clicks, fetches>>

Row == [Section -> Value]

\* saving: the value on its way.  done: it is committed, the answer is not
\* here.  clean: nothing was typed since Save was clicked and did not fail.
\* missed, for the properties: saved since the answer on its way, or the last
\* one shown, was read.
PageState ==
    [ open   : BOOLEAN,
      form   : Row,
      data   : Row \cup {Nothing},
      fetch  : {"idle", "sent", "answered", "failed"},
      rows   : Row \cup {Nothing},
      saving : [Section -> Value \cup {Nothing}],
      done   : SUBSET Section,
      clean  : SUBSET Section,
      missed : SUBSET Section ]

SettingsTypeOK ==
    /\ org \in Row
    /\ page \in [Owner -> PageState]
    /\ saver \in [Section -> Owner \cup {Nothing}]
    /\ clicks \in 0..MaxClicks /\ fetches \in 0..MaxFetches

BlankForm == [sec \in Section |-> Blank]

-----------------------------------------------------------------------------
Turn(s, p) ==
    /\ page' = [page EXCEPT ![s] = p]
    /\ UNCHANGED <<org, saver, clicks, fetches>>

\* Another page fetches the organization.
Prefetch(s) ==
    /\ ~page[s].open /\ page[s].fetch \in {"idle", "failed"}
    /\ fetches < MaxFetches
    /\ fetches' = fetches + 1
    /\ page' = [page EXCEPT ![s].fetch = "sent"]
    /\ UNCHANGED <<org, saver, clicks>>

\* The page opens.  What is in the cache is copied into the forms, and
\* fetched anew if it is older than staleTime.
OpenSettings(s) ==
    LET p == page[s]
    IN  /\ ~p.open
        /\ \E again \in BOOLEAN :
              /\ p.data = Nothing => again
              /\ Turn(s, [p EXCEPT !.open = TRUE,
                             !.form = IF p.data = Nothing THEN BlankForm ELSE p.data,
                             !.fetch = IF again /\ p.fetch # "answered" THEN "sent" ELSE p.fetch])

\* GET /organization
ReadOrg(s) ==
    /\ page[s].fetch = "sent"
    /\ Turn(s, [page[s] EXCEPT !.fetch = "answered", !.rows = org, !.missed = {}])

\* The answer, and the effect on [org.data].
ShowOrg(s) ==
    LET p == page[s]
    IN  /\ p.fetch = "answered"
        /\ Turn(s, [p EXCEPT !.fetch = "idle", !.rows = Nothing, !.data = p.rows,
                       !.form = IF p.open /\ p.rows # p.data THEN p.rows ELSE p.form])

FailReadOrg(s) ==
    /\ page[s].fetch = "sent"
    /\ fetches < MaxFetches
    /\ fetches' = fetches + 1
    /\ page' = [page EXCEPT ![s].fetch = "failed"]
    /\ UNCHANGED <<org, saver, clicks>>

\* The inputs are never disabled.
Edit(s, sec, v) ==
    /\ page[s].open
    /\ v # page[s].form[sec]
    /\ clicks < MaxClicks
    /\ clicks' = clicks + 1
    /\ page' = [page EXCEPT ![s] = [page[s] EXCEPT !.form[sec] = v, !.clean = @ \ {sec}]]
    /\ UNCHANGED <<org, saver, fetches>>

-----------------------------------------------------------------------------
\* The Save button and what the form itself refuses: the name of the
\* organization is required, and payroll waits for the organization.
MaySave(s, sec) ==
    /\ page[s].saving[sec] = Nothing
    /\ sec = "organization" => page[s].form[sec] # Blank
    /\ sec = "payroll" => page[s].data # Nothing

ClickSave(s, sec) ==
    /\ page[s].open /\ MaySave(s, sec)
    /\ clicks < MaxClicks
    /\ clicks' = clicks + 1
    /\ page' = [page EXCEPT ![s] = [page[s] EXCEPT !.saving[sec] = page[s].form[sec],
                                           !.clean = @ \cup {sec}]]
    /\ UNCHANGED <<org, saver, fetches>>

\* The columns of the section, and no others.
Patched(s, sec) == [org EXCEPT ![sec] = page[s].saving[sec]]

\* PATCH /organization, committed.
SaveSection(s, sec) ==
    /\ page[s].saving[sec] # Nothing /\ sec \notin page[s].done
    /\ org' = Patched(s, sec)
    /\ saver' = [saver EXCEPT ![sec] = s]
    /\ page' = [page EXCEPT ![s].done = @ \cup {sec}]
    /\ UNCHANGED <<clicks, fetches>>

\* The first load of the organization is on its way.
Loading(p) == p.data = Nothing /\ p.fetch \in {"sent", "answered"}

\* The older answer of a first load will be shown although the section has
\* been saved since.
Missed(p, sec) == IF Loading(p) /\ p.fetch = "answered" THEN {sec} ELSE {}

\* Mutant of Saved: every fetch on its way is left to finish.
SavedIfIdle(s, sec) ==
    LET p == page[s]
    IN  /\ sec \in p.done
        /\ Turn(s, [p EXCEPT !.saving[sec] = Nothing, !.done = @ \ {sec},
                       !.fetch = IF @ \in {"idle", "failed"} THEN "sent" ELSE @,
                       !.missed = @ \cup Missed(p, sec)])

\* onSuccess: a fetch on its way is cancelled and sent again, except that the
\* first load goes on (Query.fetch cancels only when there is data).
Saved(s, sec) ==
    LET p == page[s]
    IN  /\ sec \in p.done
        /\ Turn(s, [p EXCEPT !.saving[sec] = Nothing, !.done = @ \ {sec},
                       !.fetch = IF Loading(p) THEN @ ELSE "sent",
                       !.rows = IF Loading(p) THEN @ ELSE Nothing,
                       !.missed = @ \cup Missed(p, sec)])

\* onError: refused by the schema, failed, or the answer was lost.
SaveFailed(s, sec) ==
    /\ page[s].saving[sec] # Nothing
    /\ Turn(s, [page[s] EXCEPT !.saving[sec] = Nothing, !.done = @ \ {sec},
                   !.clean = @ \ {sec}])

-----------------------------------------------------------------------------
SettingsInit ==
    /\ org = [sec \in Section |-> Stored]
    /\ page = [s \in Owner |->
          [open |-> FALSE, form |-> BlankForm, data |-> Nothing, fetch |-> "idle",
           rows |-> Nothing, saving |-> [sec \in Section |-> Nothing],
           done |-> {}, clean |-> {}, missed |-> {}]]
    /\ saver = [sec \in Section |-> Nothing]
    /\ clicks = 0 /\ fetches = 0

SettingsNext ==
    \E s \in Owner :
        \/ Prefetch(s) \/ OpenSettings(s)
        \/ ReadOrg(s) \/ ShowOrg(s) \/ FailReadOrg(s)
        \/ \E sec \in Section :
              \/ \E v \in Value \ {Blank} : Edit(s, sec, v)
              \/ ClickSave(s, sec) \/ SaveSection(s, sec)
              \/ Saved(s, sec) \/ SaveFailed(s, sec)

SettingsSpec == SettingsInit /\ [][SettingsNext]_settingsVars

-----------------------------------------------------------------------------
(***************************************************************************)
(* The settings stay what their owners chose.  A page at rest shows what   *)
(* it saved: a section it was the last to save, with nothing typed there   *)
(* since, is on its form as in the database, so that the next Save cannot  *)
(* take it back, whatever was fetched or saved meanwhile.  The exception   *)
(* is a section saved before the organization has loaded, which Compliance *)
(* and Verification allow, and the name once one is typed: the first load  *)
(* is not cancelled, and its older answer fills the form until the next    *)
(* fetch.  And the payroll calendar only ever holds what it had or what    *)
(* was chosen for it: neither a slow load nor the save of another section  *)
(* puts the form's defaults there (settings/page.tsx:531).                 *)
(***************************************************************************)
SettingsAreAsChosen ==
    /\ \A s \in Owner : \A sec \in page[s].clean \ page[s].missed :
          /\ page[s].fetch = "idle"
          /\ \A o \in Section : page[s].saving[o] = Nothing
          /\ saver[sec] = s
          => page[s].form[sec] = org[sec]
    /\ "payroll" \in Section => org["payroll"] # Blank
=============================================================================
