------------------------------- MODULE Themes -------------------------------
(***************************************************************************)
(* The themes of a tenant: uploads, each a transaction that deactivates    *)
(* the tenant's themes and inserts an active one, edits of the settings    *)
(* and the publish status, and what the storefront shows.  Every statement *)
(* is confined to its tenant, so the model has one.                        *)
(*                                                                         *)
(* A theme is named by the request that uploads it.  An UPDATE sees the    *)
(* rows that were there when it started and waits for whoever has changed  *)
(* one of them and not committed.                                          *)
(***************************************************************************)
EXTENDS Naturals, FiniteSets

CONSTANTS ThemeCalls, Slugs, None

VARIABLES
  theme,       \* theme_metadata
  config,      \* theme_config: the request that wrote it last
  publish,     \* theme_publish_status
  themeCall,
  clock,       \* now(); every transaction and every stamp has its own
  overlapped   \* pairs of uploads of which neither began after the other's end

themeVars == <<theme, config, publish, themeCall, clock, overlapped>>

ASSUME NoneAssumption == None \notin ThemeCalls

NoTheme == [slug |-> None, active |-> FALSE, created_at |-> 0]
Theme == [slug : Slugs, active : BOOLEAN, created_at : Nat] \cup {NoTheme}
Publish == [status : {"published", "unpublished"}, published_at : Nat, unpublished_at : Nat]
NoPublish == [status |-> "unpublished", published_at |-> 0, unpublished_at |-> 0]

Uploading == {"deactivate", "waiting", "insert", "commit"}
ThemeCall ==
  [pc : {"new", "done", "failed"}]
  \cup [pc : Uploading, slug : Slugs, began : Nat, rows : SUBSET ThemeCalls]
  \cup [pc : {"config", "edit"}, theme : ThemeCalls, default : BOOLEAN, moved : BOOLEAN, found : BOOLEAN]
  \cup [pc : {"status"}, theme : ThemeCalls, publish : BOOLEAN]
  \cup [pc : {"publish"}, theme : ThemeCalls, publish : BOOLEAN, seen : Publish]

ThemesInit == /\ theme = [r \in ThemeCalls |-> NoTheme]
              /\ config = [r \in ThemeCalls |-> None]
              /\ publish = [r \in ThemeCalls |-> NoPublish]
              /\ themeCall = [r \in ThemeCalls |-> [pc |-> "new"]]
              /\ clock = 0 /\ overlapped = {}

Stored == {r \in ThemeCalls : theme[r] # NoTheme}
Active == {r \in Stored : theme[r].active}
\* getActiveThemeForTenant: the active theme created last.
Shown == {r \in Active : \A q \in Active : theme[q].created_at <= theme[r].created_at}

\* getThemeById, and what the storefront gets without an active theme.
ThemeView(x) == [theme |-> x, config |-> config[x], publish_status |-> publish[x].status]
StorefrontConfig ==
  IF Shown = {} THEN [theme |-> None, config |-> None, publish_status |-> "unpublished"]
  ELSE ThemeView(CHOOSE x \in Shown : TRUE)

PutCall(r, q) == themeCall' = [themeCall EXCEPT ![r] = q]
ThemeDone(r, pc) == PutCall(r, [pc |-> pc])
Tick == clock' = clock + 1
-----------------------------------------------------------------------------
(* uploadAndActivateTheme.                                                 *)

BeginUpload(r) ==
  /\ themeCall[r].pc = "new"
  /\ \E slug \in Slugs :
       PutCall(r, [pc |-> "deactivate", slug |-> slug, began |-> clock + 1, rows |-> {}])
  /\ overlapped' = overlapped \cup {<<q, r>> : q \in {p \in ThemeCalls : themeCall[p].pc \in Uploading}}
  /\ Tick
  /\ UNCHANGED <<theme, config, publish>>

\* Variant: only an earlier version of the theme is deactivated.
Deactivated_Slug(r) == {q \in Stored : theme[q].slug = themeCall[r].slug}
Deactivated(r) == Stored

Locked(r, rows) == \E q \in ThemeCalls \ {r} :
  themeCall[q].pc \in {"insert", "commit"} /\ themeCall[q].rows \cap rows # {}

DeactivateThemes(r) ==
  /\ themeCall[r].pc = "deactivate"
  /\ PutCall(r, [themeCall[r] EXCEPT !.pc = IF Locked(r, Deactivated(r)) THEN "waiting" ELSE "insert",
                                     !.rows = Deactivated(r)])
  /\ UNCHANGED <<theme, config, publish, clock, overlapped>>

StopWaiting(r) ==
  /\ themeCall[r].pc = "waiting" /\ ~Locked(r, themeCall[r].rows)
  /\ PutCall(r, [themeCall[r] EXCEPT !.pc = "insert"])
  /\ UNCHANGED <<theme, config, publish, clock, overlapped>>

Deactivating(rows) == [x \in ThemeCalls |->
  IF x \in rows THEN [theme[x] EXCEPT !.active = FALSE] ELSE theme[x]]

\* The transaction is undone.
Unfinished(r) == theme

\* UNIQUE (tenant_id, slug): a row that is not committed yet is waited for.
InsertTheme(r) ==
  /\ themeCall[r].pc = "insert"
  /\ \A q \in ThemeCalls : themeCall[q].pc = "commit" => themeCall[q].slug # themeCall[r].slug
  /\ IF \E q \in Stored : theme[q].slug = themeCall[r].slug
     THEN ThemeDone(r, "failed") /\ theme' = Unfinished(r)
     ELSE PutCall(r, [themeCall[r] EXCEPT !.pc = "commit"]) /\ UNCHANGED theme
  /\ UNCHANGED <<config, publish, clock, overlapped>>

\* A theme comes with its settings and is not published.
CommitUpload(r) ==
  /\ themeCall[r].pc = "commit"
  /\ LET q == themeCall[r] IN
     /\ theme' = [Deactivating(q.rows) EXCEPT ![r] = [slug |-> q.slug, active |-> TRUE, created_at |-> q.began]]
     /\ publish' = [publish EXCEPT ![r] = [NoPublish EXCEPT !.unpublished_at = q.began]]
  /\ config' = [config EXCEPT ![r] = r]
  /\ themeCall' = [x \in ThemeCalls |->
       IF x = r THEN [pc |-> "done"]
       ELSE IF themeCall[x].pc \in {"config", "edit"} THEN [themeCall[x] EXCEPT !.moved = TRUE]
       ELSE themeCall[x]]
  /\ UNCHANGED <<clock, overlapped>>

\* The process stops or the connection is lost.
AbortUpload(r) ==
  /\ themeCall[r].pc \in Uploading
  /\ ThemeDone(r, "failed") /\ theme' = Unfinished(r)
  /\ UNCHANGED <<config, publish, clock, overlapped>>
-----------------------------------------------------------------------------
(* editThemeSettings and setThemePublishStatus.                            *)

\* Variant: the theme is not asked to be active.
Candidates_Any(named) == IF named = None THEN Stored ELSE {named} \cap Stored
\* The theme that is named, or some active one: the read has no order.
Candidates(named) == IF named = None THEN Active ELSE {named} \cap Stored

\* The request goes on with one of the themes found.
FindTheme(r, calls) ==
  /\ themeCall[r].pc = "new"
  /\ IF calls = {} THEN ThemeDone(r, "failed") ELSE \E q \in calls : PutCall(r, q)
  /\ UNCHANGED <<theme, config, publish, clock, overlapped>>

EditThemeSettings(r) == \E named \in Stored \cup {None} :
  FindTheme(r, {[pc |-> "config", theme |-> x, default |-> named = None, moved |-> FALSE, found |-> FALSE] :
                x \in Candidates(named)})

ReadConfig(r) ==
  /\ themeCall[r].pc = "config"
  /\ PutCall(r, [themeCall[r] EXCEPT !.pc = "edit", !.found = config[themeCall[r].theme] # None])
  /\ UNCHANGED <<theme, config, publish, clock, overlapped>>

\* UNIQUE (tenant_id, theme_id) refuses a second row.
WriteConfig(r) ==
  /\ themeCall[r].pc = "edit"
  /\ LET q == themeCall[r] IN
     IF q.found \/ config[q.theme] = None
     THEN config' = [config EXCEPT ![q.theme] = r] /\ ThemeDone(r, "done")
     ELSE UNCHANGED config /\ ThemeDone(r, "failed")
  /\ UNCHANGED <<theme, publish, clock, overlapped>>

SetThemePublishStatus(r) == \E named \in Stored \cup {None}, on \in BOOLEAN :
  FindTheme(r, {[pc |-> "status", theme |-> x, publish |-> on] : x \in Candidates(named)})

ReadPublishStatus(r) ==
  /\ themeCall[r].pc = "status"
  /\ LET q == themeCall[r] IN
     PutCall(r, [pc |-> "publish", theme |-> q.theme, publish |-> q.publish, seen |-> publish[q.theme]])
  /\ UNCHANGED <<theme, config, publish, clock, overlapped>>

\* One stamp is now, the other what an earlier read has found.
Stamped(q) == IF q.publish
              THEN [q.seen EXCEPT !.status = "published", !.published_at = clock + 1]
              ELSE [q.seen EXCEPT !.status = "unpublished", !.unpublished_at = clock + 1]

WritePublishStatus(r) ==
  /\ themeCall[r].pc = "publish"
  /\ publish' = [publish EXCEPT ![themeCall[r].theme] = Stamped(themeCall[r])]
  /\ ThemeDone(r, "done") /\ Tick
  /\ UNCHANGED <<theme, config, overlapped>>

ThemesNext == \E r \in ThemeCalls :
  \/ BeginUpload(r) \/ DeactivateThemes(r) \/ StopWaiting(r) \/ InsertTheme(r)
  \/ CommitUpload(r) \/ AbortUpload(r)
  \/ EditThemeSettings(r) \/ ReadConfig(r) \/ WriteConfig(r)
  \/ SetThemePublishStatus(r) \/ ReadPublishStatus(r) \/ WritePublishStatus(r)
=============================================================================
