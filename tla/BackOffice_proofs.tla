-------------------------- MODULE BackOffice_proofs --------------------------
(***************************************************************************)
(* What the back office shows, for any numbers of uploads, edits, rows,    *)
(* writes, channels and stock levels.  The four parts of the state do not  *)
(* read each other, so the invariant is a conjunction of four: one of the  *)
(* themes, one of the orders, one of the channels, one of the stock.  The  *)
(* orders need facts about the lists a timeline is put together from: what *)
(* flattening and sorting keep of them.                                    *)
(***************************************************************************)
EXTENDS BackOffice, FiniteSetTheorems, WellFoundedInduction, TLAPS
-----------------------------------------------------------------------------
(* Themes                                                                  *)

ThemesType ==
  /\ theme \in [ThemeCalls -> Theme] /\ config \in [ThemeCalls -> ThemeCalls \cup {None}]
  /\ publish \in [ThemeCalls -> Publish] /\ themeCall \in [ThemeCalls -> ThemeCall]
  /\ clock \in Nat

\* A transaction begins before now, and a theme is created when its upload
\* began.
Dated ==
  /\ \A r \in ThemeCalls : themeCall[r].pc \in Uploading => themeCall[r].began \in 1..clock
  /\ \A x \in Stored : theme[x].created_at \in 1..clock

\* Some theme is active once there is one, and each has its settings.
Settled ==
  /\ IsFiniteSet(Stored)
  /\ Stored # {} => Active # {}
  /\ \A x \in Stored : config[x] # None

Pair(x, y) == <<x, y>> \in overlapped \/ <<y, x>> \in overlapped

\* What an upload will not deactivate was, or will be, committed while it ran.
Apart ==
  /\ \A x, y \in ThemeCalls :
       x # y /\ themeCall[x].pc \in Uploading /\ themeCall[y].pc \in Uploading => Pair(x, y)
  /\ \A r, x \in ThemeCalls :
       r # x /\ themeCall[r].pc \in Uploading \ {"deactivate"} /\ x \in Stored \ themeCall[r].rows => Pair(x, r)
  /\ \A x, y \in Active : x = y \/ Pair(x, y)

\* An edit of the active theme found it active, and it stays so until the
\* next upload.
Edited ==
  \A r \in ThemeCalls :
    themeCall[r].pc \in {"config", "edit"} /\ themeCall[r].default /\ ~themeCall[r].moved
      => themeCall[r].theme \in Active

ThemesInv == ThemesType /\ Dated /\ Settled /\ Apart /\ Edited

UploadCall == [pc : Uploading, slug : Slugs, began : Nat, rows : SUBSET ThemeCalls]
EditCall == [pc : {"config", "edit"}, theme : ThemeCalls, default : BOOLEAN, moved : BOOLEAN, found : BOOLEAN]

\* The record of a request has the fields its phase needs.
LEMMA CallShape ==
  ASSUME NEW q \in ThemeCall
  PROVE  /\ q.pc \in Uploading => q \in UploadCall
         /\ q.pc \in {"config", "edit"} => q \in EditCall
         /\ q.pc = "status" => q.theme \in ThemeCalls /\ q.publish \in BOOLEAN
         /\ q.pc = "publish" => q.theme \in ThemeCalls /\ q.publish \in BOOLEAN /\ q.seen \in Publish
BY DEF ThemeCall, Uploading, UploadCall, EditCall

LEMMA UploadExcept ==
  ASSUME NEW q \in UploadCall, NEW pc \in Uploading
  PROVE  LET n == [q EXCEPT !.pc = pc]
         IN  n \in ThemeCall /\ n.pc = pc /\ n.began = q.began /\ n.rows = q.rows
<1>1. UploadCall \subseteq ThemeCall
  BY DEF UploadCall, ThemeCall
<1>2. LET n == [q EXCEPT !.pc = pc]
      IN  n \in UploadCall /\ n.pc = pc /\ n.began = q.began /\ n.rows = q.rows
  BY DEF UploadCall
<1> QED  BY <1>1, <1>2

LEMMA EditExcept ==
  ASSUME NEW q \in EditCall, NEW found \in BOOLEAN
  PROVE  LET n == [q EXCEPT !.pc = "edit", !.found = found]
         IN  n \in ThemeCall /\ n.pc = "edit" /\ n.theme = q.theme /\ n.default = q.default /\ n.moved = q.moved
<1> DEFINE n == [q EXCEPT !.pc = "edit", !.found = found]
<1>1. n \in EditCall /\ n.pc = "edit" /\ n.theme = q.theme /\ n.default = q.default /\ n.moved = q.moved
  BY DEF EditCall
<1> HIDE DEF n
<1>2. n \in ThemeCall
  BY <1>1 DEF EditCall, ThemeCall
<1> QED  BY <1>1, <1>2 DEF n

LEMMA MovedExcept ==
  ASSUME NEW q \in EditCall
  PROVE  LET n == [q EXCEPT !.moved = TRUE]
         IN  n \in ThemeCall /\ n.pc = q.pc /\ n.moved
<1> DEFINE n == [q EXCEPT !.moved = TRUE]
<1>1. n \in EditCall /\ n.pc = q.pc /\ n.moved = TRUE
  BY DEF EditCall
<1> HIDE DEF n
<1>2. n \in ThemeCall
  BY <1>1 DEF EditCall, ThemeCall
<1> QED  BY <1>1, <1>2 DEF n

\* A request that writes neither themes nor the pairs, and begins nothing.
LEMMA CallStep ==
  ASSUME ThemesInv, NEW r \in ThemeCalls, NEW q \in ThemeCall, PutCall(r, q), UNCHANGED <<theme, overlapped>>,
         config' \in [ThemeCalls -> ThemeCalls \cup {None}], \A x \in Stored : config'[x] # None,
         publish' \in [ThemeCalls -> Publish], clock' \in {clock, clock + 1},
         q.pc \in Uploading =>
           /\ themeCall[r].pc \in Uploading /\ q.began = themeCall[r].began
           /\ q.pc = "deactivate" \/ q.rows = Stored
              \/ (q.rows = themeCall[r].rows /\ themeCall[r].pc # "deactivate"),
         q.pc \in {"config", "edit"} /\ q.default /\ ~q.moved => q.theme \in Active
  PROVE  ThemesInv'
<1>1. ThemesType /\ Dated /\ Settled /\ Apart /\ Edited
  BY DEF ThemesInv
<1>2. themeCall'[r] = q /\ \A x \in ThemeCalls \ {r} : themeCall'[x] = themeCall[x]
  BY <1>1 DEF PutCall, ThemesType
<1>3. Stored' = Stored /\ Active' = Active /\ \A x, y : Pair(x, y)' = Pair(x, y)
  BY DEF Stored, Active, Pair
<1>4. ThemesType'
  BY <1>1 DEF ThemesType, PutCall
<1>5. Dated'
  <2>1. \A x \in ThemeCalls : themeCall'[x].pc \in Uploading => themeCall'[x].began \in 1..clock'
    BY <1>1, <1>2 DEF Dated, ThemesType
  <2>2. \A x \in Stored' : theme'[x].created_at \in 1..clock'
    BY <1>1, <1>3 DEF Dated, ThemesType
  <2> QED  BY <2>1, <2>2 DEF Dated
<1>6. Settled'
  BY <1>1, <1>3 DEF Settled
<1>7. Apart'
  <2>1. ASSUME NEW x \in ThemeCalls, NEW y \in ThemeCalls, x # y,
               themeCall'[x].pc \in Uploading, themeCall'[y].pc \in Uploading
        PROVE  Pair(x, y)
    BY <1>1, <1>2, <2>1 DEF Apart
  <2>2. ASSUME NEW p \in ThemeCalls, NEW x \in ThemeCalls, p # x,
               themeCall'[p].pc \in Uploading \ {"deactivate"}, x \in Stored \ themeCall'[p].rows
        PROVE  Pair(x, p)
    BY <1>1, <1>2, <2>2 DEF Apart
  <2> QED  BY <1>1, <1>3, <2>1, <2>2 DEF Apart
<1>8. Edited'
  BY <1>1, <1>2, <1>3 DEF Edited
<1> QED  BY <1>4, <1>5, <1>6, <1>7, <1>8 DEF ThemesInv

LEMMA ThemesUploadSteps ==
  ASSUME ThemesInv, NEW r \in ThemeCalls,
         DeactivateThemes(r) \/ StopWaiting(r) \/ InsertTheme(r) \/ AbortUpload(r)
  PROVE  ThemesInv'
<1>1. ThemesType /\ Settled /\ themeCall[r] \in ThemeCall
  BY DEF ThemesInv, ThemesType
<1>2. /\ config' \in [ThemeCalls -> ThemeCalls \cup {None}] /\ \A x \in Stored : config'[x] # None
      /\ publish' \in [ThemeCalls -> Publish] /\ clock' = clock
      /\ UNCHANGED <<theme, overlapped>>
  BY <1>1 DEF DeactivateThemes, StopWaiting, InsertTheme, AbortUpload, Unfinished, ThemesType, Settled
<1>3. ASSUME NEW pc \in {"failed"}, ThemeDone(r, pc) PROVE ThemesInv'
  <2>1. [pc |-> pc] \in ThemeCall /\ [pc |-> pc].pc = "failed"
    BY <1>3 DEF ThemeCall
  <2>2. PutCall(r, [pc |-> pc])
    BY <1>3 DEF ThemeDone
  <2> QED  BY <1>2, <2>1, <2>2, CallStep DEF Uploading
<1>4. ASSUME NEW n \in ThemeCall, PutCall(r, n), n.pc \in Uploading, themeCall[r].pc \in Uploading,
             n.began = themeCall[r].began,
             n.rows = Stored \/ (n.rows = themeCall[r].rows /\ themeCall[r].pc # "deactivate")
      PROVE  ThemesInv'
  BY <1>2, <1>4, CallStep DEF Uploading
<1>5. themeCall[r].pc \in Uploading => themeCall[r] \in UploadCall
  BY <1>1, CallShape
<1>6. CASE DeactivateThemes(r)
  <2>1. PICK pc \in {"waiting", "insert"} : PutCall(r, [themeCall[r] EXCEPT !.pc = pc, !.rows = Stored])
    BY <1>6 DEF DeactivateThemes, Deactivated
  <2>2. Stored \in SUBSET ThemeCalls /\ pc \in Uploading /\ themeCall[r].pc \in Uploading
    BY <1>6 DEF Stored, Uploading, DeactivateThemes
  <2> DEFINE n == [themeCall[r] EXCEPT !.pc = pc, !.rows = Stored]
  <2>3. n \in ThemeCall /\ n.pc = pc /\ n.began = themeCall[r].began /\ n.rows = Stored
    <3>1. PICK q \in UploadCall : q = themeCall[r]
      BY <1>5, <2>2
    <3>2. PICK rows \in SUBSET ThemeCalls : rows = Stored
      BY <2>2
    <3> DEFINE k == [q EXCEPT !.pc = pc, !.rows = rows]
    <3>3. k \in ThemeCall /\ k.pc = pc /\ k.began = q.began /\ k.rows = rows
      <4>1. k \in UploadCall /\ k.pc = pc /\ k.began = q.began /\ k.rows = rows
        BY <2>2 DEF UploadCall
      <4>2. UploadCall \subseteq ThemeCall
        BY DEF UploadCall, ThemeCall
      <4> QED  BY <4>1, <4>2
    <3>4. n = k
      BY <3>1, <3>2
    <3> HIDE DEF k, n
    <3> QED  BY <3>1, <3>2, <3>3, <3>4
  <2>4. PutCall(r, n)
    BY <2>1
  <2> HIDE DEF n
  <2> QED  BY <1>4, <2>2, <2>3, <2>4
<1>7. ASSUME NEW pc \in {"insert", "commit"}, PutCall(r, [themeCall[r] EXCEPT !.pc = pc]),
             themeCall[r].pc \in {"waiting", "insert"}
      PROVE  ThemesInv'
  <2>1. pc \in Uploading /\ themeCall[r] \in UploadCall
    BY <1>5, <1>7 DEF Uploading
  <2> DEFINE n == [themeCall[r] EXCEPT !.pc = pc]
  <2>2. n \in ThemeCall /\ n.pc = pc /\ n.began = themeCall[r].began /\ n.rows = themeCall[r].rows
    BY <2>1, UploadExcept
  <2>3. PutCall(r, n)
    BY <1>7
  <2> HIDE DEF n
  <2> QED  BY <1>4, <1>7, <2>1, <2>2, <2>3 DEF Uploading
<1>8. CASE StopWaiting(r)
  BY <1>7, <1>8 DEF StopWaiting
<1>9. CASE InsertTheme(r)
  BY <1>3, <1>7, <1>9 DEF InsertTheme
<1>10. CASE AbortUpload(r)
  BY <1>3, <1>10 DEF AbortUpload
<1> QED  BY <1>6, <1>8, <1>9, <1>10

LEMMA ThemesOtherSteps ==
  ASSUME ThemesInv, NEW r \in ThemeCalls,
         \/ EditThemeSettings(r) \/ ReadConfig(r) \/ WriteConfig(r)
         \/ SetThemePublishStatus(r) \/ ReadPublishStatus(r) \/ WritePublishStatus(r)
  PROVE  ThemesInv'
<1>1. ThemesType /\ Settled /\ Edited /\ themeCall[r] \in ThemeCall
  BY DEF ThemesInv, ThemesType
<1>2. /\ config' \in [ThemeCalls -> ThemeCalls \cup {None}] /\ (\A x \in Stored : config'[x] # None)
      /\ UNCHANGED <<theme, overlapped>>
  <2>1. CASE WriteConfig(r)
    <3>1. \/ UNCHANGED config
          \/ themeCall[r].theme \in ThemeCalls /\ config' = [config EXCEPT ![themeCall[r].theme] = r]
      BY <1>1, <2>1, CallShape DEF WriteConfig, EditCall
    <3> QED  BY <1>1, <2>1, <3>1, NoneAssumption DEF WriteConfig, ThemesType, Settled, Stored
  <2>2. CASE ~WriteConfig(r)
    BY <1>1, <2>2 DEF EditThemeSettings, ReadConfig, SetThemePublishStatus, ReadPublishStatus,
                      WritePublishStatus, FindTheme, ThemesType, Settled
  <2> QED  BY <2>1, <2>2
<1>3. publish' \in [ThemeCalls -> Publish] /\ clock' \in {clock, clock + 1}
  <2>1. CASE WritePublishStatus(r)
    <3>1. themeCall[r].seen \in Publish
      BY <1>1, <2>1, CallShape DEF WritePublishStatus
    <3>2. clock + 1 \in Nat
      BY <1>1 DEF ThemesType
    <3>3. Stamped(themeCall[r]) \in Publish
      BY <3>1, <3>2 DEF Stamped, Publish
    <3> QED  BY <1>1, <2>1, <3>3 DEF WritePublishStatus, ThemesType, Tick
  <2>2. CASE ~WritePublishStatus(r)
    BY <1>1, <2>2 DEF EditThemeSettings, ReadConfig, SetThemePublishStatus, ReadPublishStatus,
                      WriteConfig, FindTheme, ThemesType
  <2> QED  BY <2>1, <2>2
<1>4. ASSUME NEW q \in ThemeCall, PutCall(r, q), q.pc \notin Uploading,
             q.pc \in {"config", "edit"} /\ q.default /\ ~q.moved => q.theme \in Active
      PROVE  ThemesInv'
  BY <1>2, <1>3, <1>4, CallStep
<1>5. ASSUME NEW pc \in {"done", "failed"}, ThemeDone(r, pc) PROVE ThemesInv'
  <2>1. [pc |-> pc] \in ThemeCall /\ [pc |-> pc].pc = pc
    BY DEF ThemeCall
  <2> QED  BY <1>4, <1>5, <2>1 DEF ThemeDone, Uploading
<1>6. \A named : Candidates(named) \in SUBSET ThemeCalls
  BY DEF Candidates, Active, Stored
<1>7. CASE EditThemeSettings(r)
  <2>1. PICK named : FindTheme(r, {[pc |-> "config", theme |-> x, default |-> named = None, moved |-> FALSE,
                                    found |-> FALSE] : x \in Candidates(named)})
    BY <1>7 DEF EditThemeSettings
  <2>2. ASSUME NEW x \in Candidates(named),
               PutCall(r, [pc |-> "config", theme |-> x, default |-> named = None, moved |-> FALSE, found |-> FALSE])
        PROVE  ThemesInv'
    <3> DEFINE q == [pc |-> "config", theme |-> x, default |-> named = None, moved |-> FALSE, found |-> FALSE]
    <3>1. q.pc = "config" /\ q.theme = x /\ (q.default <=> named = None)
      OBVIOUS
    <3>2. x \in ThemeCalls
      BY <1>6
    <3>3. q \in ThemeCall
      BY <3>2 DEF ThemeCall
    <3>4. q.default => q.theme \in Active
      BY <2>2, <3>1 DEF Candidates
    <3>5. PutCall(r, q)
      BY <2>2
    <3> HIDE DEF q
    <3> QED  BY <1>4, <3>1, <3>3, <3>4, <3>5 DEF Uploading
  <2> QED  BY <1>5, <2>1, <2>2 DEF FindTheme
<1>8. CASE ReadConfig(r)
  <2> DEFINE q == [themeCall[r] EXCEPT !.pc = "edit", !.found = config[themeCall[r].theme] # None]
  <2>1. themeCall[r] \in EditCall /\ themeCall[r].pc = "config"
    BY <1>1, <1>8, CallShape DEF ReadConfig
  <2>2. /\ q.pc = "edit" /\ q.default = themeCall[r].default /\ q.moved = themeCall[r].moved
        /\ q.theme = themeCall[r].theme /\ q \in ThemeCall
    BY <2>1, EditExcept
  <2>3. PutCall(r, q)
    BY <1>8 DEF ReadConfig
  <2> HIDE DEF q
  <2> QED  BY <1>1, <1>4, <2>1, <2>2, <2>3 DEF Edited, Uploading
<1>9. CASE WriteConfig(r)
  BY <1>5, <1>9 DEF WriteConfig
<1>10. CASE SetThemePublishStatus(r)
  <2>1. PICK named \in Stored \cup {None}, on \in BOOLEAN :
          FindTheme(r, {[pc |-> "status", theme |-> x, publish |-> on] : x \in Candidates(named)})
    BY <1>10 DEF SetThemePublishStatus
  <2>2. ASSUME NEW x \in Candidates(named), PutCall(r, [pc |-> "status", theme |-> x, publish |-> on])
        PROVE  ThemesInv'
    <3>1. [pc |-> "status", theme |-> x, publish |-> on] \in ThemeCall
      BY <1>6 DEF ThemeCall
    <3> QED  BY <1>4, <2>2, <3>1 DEF Uploading
  <2> QED  BY <1>5, <2>1, <2>2 DEF FindTheme
<1>11. CASE ReadPublishStatus(r)
  <2>1. themeCall[r].theme \in ThemeCalls /\ themeCall[r].publish \in BOOLEAN
    BY <1>1, <1>11, CallShape DEF ReadPublishStatus
  <2> DEFINE q == [pc |-> "publish", theme |-> themeCall[r].theme, publish |-> themeCall[r].publish,
                   seen |-> publish[themeCall[r].theme]]
  <2>2. q \in ThemeCall /\ q.pc = "publish"
    BY <1>1, <2>1 DEF ThemeCall, ThemesType
  <2>3. PutCall(r, q)
    BY <1>11 DEF ReadPublishStatus
  <2> HIDE DEF q
  <2> QED  BY <1>4, <2>2, <2>3 DEF Uploading
<1>12. CASE WritePublishStatus(r)
  BY <1>5, <1>12 DEF WritePublishStatus
<1> QED  BY <1>7, <1>8, <1>9, <1>10, <1>11, <1>12

\* A new upload overlaps with those that run.
LEMMA BeginStep == ASSUME ThemesInv, NEW r \in ThemeCalls, BeginUpload(r) PROVE ThemesInv'
<1>1. ThemesType /\ Dated /\ Settled /\ Apart /\ Edited
  BY DEF ThemesInv
<1>2. PICK slug \in Slugs :
        PutCall(r, [pc |-> "deactivate", slug |-> slug, began |-> clock + 1, rows |-> {}])
  BY DEF BeginUpload
<1> DEFINE new == [pc |-> "deactivate", slug |-> slug, began |-> clock + 1, rows |-> {}]
<1>3. new.pc = "deactivate" /\ new.began = clock + 1 /\ new \in ThemeCall
  BY <1>1 DEF ThemeCall, Uploading, ThemesType
<1>4. PutCall(r, new)
  BY <1>2
<1> HIDE DEF new
<1>5. themeCall'[r] = new /\ \A x \in ThemeCalls \ {r} : themeCall'[x] = themeCall[x]
  BY <1>1, <1>4 DEF PutCall, ThemesType
<1>6. UNCHANGED <<theme, config, publish>> /\ clock' = clock + 1 /\ clock \in Nat
  BY <1>1 DEF BeginUpload, Tick, ThemesType
<1>7. Stored' = Stored /\ Active' = Active /\ \A x, y : Pair(x, y) => Pair(x, y)'
  BY <1>6 DEF Stored, Active, Pair, BeginUpload
<1>8. \A x \in ThemeCalls : themeCall[x].pc \in Uploading => Pair(x, r)'
  BY DEF Pair, BeginUpload
<1>9. ThemesType'
  BY <1>1, <1>3, <1>4, <1>6 DEF ThemesType, PutCall
<1>10. Dated'
  <2>1. \A x \in ThemeCalls : themeCall'[x].pc \in Uploading => themeCall'[x].began \in 1..clock'
    BY <1>1, <1>3, <1>5, <1>6 DEF Dated
  <2>2. \A x \in Stored' : theme'[x].created_at \in 1..clock'
    BY <1>1, <1>6, <1>7 DEF Dated
  <2> QED  BY <2>1, <2>2 DEF Dated
<1>11. Settled'
  BY <1>1, <1>6, <1>7 DEF Settled
<1>12. Apart'
  <2>1. ASSUME NEW x \in ThemeCalls, NEW y \in ThemeCalls, x # y,
               themeCall'[x].pc \in Uploading, themeCall'[y].pc \in Uploading
        PROVE  Pair(x, y)'
    <3>1. CASE x = r
      <4>1. Pair(y, r)'
        BY <1>5, <1>8, <2>1, <3>1
      <4> QED  BY <3>1, <4>1 DEF Pair
    <3>2. CASE y = r
      <4>1. Pair(x, r)'
        BY <1>5, <1>8, <2>1, <3>2
      <4> QED  BY <3>2, <4>1 DEF Pair
    <3>3. CASE x # r /\ y # r
      BY <1>1, <1>5, <1>7, <2>1, <3>3 DEF Apart
    <3> QED  BY <3>1, <3>2, <3>3
  <2>2. ASSUME NEW p \in ThemeCalls, NEW x \in ThemeCalls, p # x,
               themeCall'[p].pc \in Uploading \ {"deactivate"}, x \in Stored \ themeCall'[p].rows
        PROVE  Pair(x, p)'
    <3>1. p # r
      BY <1>3, <1>5, <2>2
    <3> QED  BY <1>1, <1>5, <1>7, <2>2, <3>1 DEF Apart
  <2>3. \A x, y \in Active' : x = y \/ Pair(x, y)'
    BY <1>1, <1>7 DEF Apart
  <2> QED  BY <1>7, <2>1, <2>2, <2>3 DEF Apart
<1>13. Edited'
  BY <1>1, <1>3, <1>5, <1>7 DEF Edited
<1> QED  BY <1>9, <1>10, <1>11, <1>12, <1>13 DEF ThemesInv

LEMMA CommitStep == ASSUME ThemesInv, NEW r \in ThemeCalls, CommitUpload(r) PROVE ThemesInv'
<1>1. ThemesType /\ Dated /\ Settled /\ Apart /\ Edited
  BY DEF ThemesInv
<1>2. themeCall[r] \in UploadCall /\ themeCall[r].pc = "commit" /\ themeCall[r].began \in 1..clock
  BY <1>1, CallShape DEF CommitUpload, ThemesType, Uploading, Dated
<1>3. PICK q \in UploadCall : q = themeCall[r]
  BY <1>2
<1>4. q.slug \in Slugs /\ q.began \in 1..clock /\ q.rows \in SUBSET ThemeCalls
  BY <1>2, <1>3 DEF UploadCall
<1> DEFINE new == [slug |-> q.slug, active |-> TRUE, created_at |-> q.began]
           off(x) == [theme[x] EXCEPT !.active = FALSE]
<1>5. /\ theme' = [Deactivating(q.rows) EXCEPT ![r] = new]
      /\ publish' = [publish EXCEPT ![r] = [NoPublish EXCEPT !.unpublished_at = q.began]]
      /\ config' = [config EXCEPT ![r] = r]
      /\ UNCHANGED <<clock, overlapped>> /\ clock \in Nat
  BY <1>1, <1>3 DEF CommitUpload, ThemesType
<1>6. \A x \in ThemeCalls \ {r} : theme'[x] = IF x \in q.rows THEN off(x) ELSE theme[x]
  BY <1>5 DEF Deactivating
<1>7. theme'[r] = new /\ DOMAIN theme' = ThemeCalls
  BY <1>5 DEF Deactivating
<1>8. \A x \in ThemeCalls : /\ theme[x] \in Theme
                            /\ theme[x] = NoTheme \/ theme[x].created_at \in 1..clock
  BY <1>1 DEF ThemesType, Dated, Stored
<1>9. ASSUME NEW x \in ThemeCalls
      PROVE  /\ off(x) \in Theme /\ off(x).active = FALSE /\ off(x).created_at = theme[x].created_at
             /\ off(x) = NoTheme <=> theme[x] = NoTheme
  <2>1. CASE theme[x] = NoTheme
    <3>1. [NoTheme EXCEPT !.active = FALSE] = NoTheme
      <4> DEFINE n == [NoTheme EXCEPT !.active = FALSE]
      <4>1. n \in [slug : {None}, active : {FALSE}, created_at : {0}]
        BY DEF NoTheme
      <4> HIDE DEF n
      <4>2. n = NoTheme
        BY <4>1 DEF NoTheme
      <4> QED  BY <4>2 DEF n
    <3>2. off(x) = NoTheme
      <4>1. off(x) = [NoTheme EXCEPT !.active = FALSE]
        BY <2>1, Zenon
      <4> QED  BY <3>1, <4>1
    <3>3. NoTheme.active = FALSE /\ NoTheme \in Theme
      BY DEF NoTheme, Theme
    <3> HIDE DEF off
    <3> QED  BY <2>1, <3>2, <3>3
  <2>2. CASE theme[x] # NoTheme
    <3>1. theme[x] \in [slug : Slugs, active : BOOLEAN, created_at : Nat]
      BY <1>8, <2>2 DEF Theme
    <3>2. /\ off(x) \in [slug : Slugs, active : BOOLEAN, created_at : Nat]
          /\ off(x).active = FALSE /\ off(x).created_at = theme[x].created_at
      BY <3>1
    <3>3. off(x).created_at # NoTheme.created_at
      BY <1>1, <1>8, <2>2, <3>2 DEF NoTheme, ThemesType
    <3> QED  BY <2>2, <3>2, <3>3 DEF Theme
  <2> QED  BY <2>1, <2>2
<1>10. new \in Theme /\ new # NoTheme /\ new.active /\ new.created_at = q.began
  <2>1. new.created_at = q.began /\ NoTheme.created_at = 0 /\ q.began # 0 /\ q.began \in Nat
    BY <1>4, <1>5 DEF NoTheme
  <2> QED  BY <1>4, <2>1 DEF Theme
<1> HIDE DEF new, off
<1>11. Stored' = Stored \cup {r}
  BY <1>6, <1>7, <1>9, <1>10 DEF Stored
<1>12. Active' = {r} \cup (Active \ q.rows)
  <2>1. r \in Active'
    BY <1>7, <1>10, <1>11 DEF Active
  <2>2. ASSUME NEW x \in ThemeCalls \ {r} PROVE x \in Active' <=> x \in Active \ q.rows
    BY <1>6, <1>9, <1>11, <2>2 DEF Active
  <2> QED  BY <2>1, <2>2 DEF Active, Stored
<1>13. \A x \in ThemeCalls \ {r} :
         themeCall'[x] = IF themeCall[x].pc \in {"config", "edit"} THEN [themeCall[x] EXCEPT !.moved = TRUE]
                         ELSE themeCall[x]
  BY DEF CommitUpload
<1>14. themeCall'[r] = [pc |-> "done"]
  BY DEF CommitUpload
<1>15. ASSUME NEW x \in ThemeCalls \ {r}
       PROVE  /\ themeCall'[x] \in ThemeCall /\ themeCall'[x].pc = themeCall[x].pc
              /\ themeCall[x].pc \in {"config", "edit"} => themeCall'[x].moved
              /\ themeCall[x].pc \notin {"config", "edit"} => themeCall'[x] = themeCall[x]
  <2>1. themeCall[x] \in ThemeCall
    BY <1>1 DEF ThemesType
  <2>2. CASE themeCall[x].pc \in {"config", "edit"}
    <3>1. themeCall[x] \in EditCall /\ themeCall'[x] = [themeCall[x] EXCEPT !.moved = TRUE]
      BY <1>13, <2>1, <2>2, CallShape
    <3> QED  BY <2>2, <3>1, MovedExcept
  <2>3. CASE themeCall[x].pc \notin {"config", "edit"}
    BY <1>13, <2>1, <2>3
  <2> QED  BY <2>2, <2>3
<1>16. ThemesType'
  <2>1. theme' \in [ThemeCalls -> Theme]
    <3>1. \A x \in ThemeCalls : theme'[x] \in Theme
      BY <1>6, <1>7, <1>8, <1>9, <1>10
    <3>2. theme' = [x \in ThemeCalls |-> theme'[x]]
      BY <1>5 DEF Deactivating
    <3> QED  BY <3>1, <3>2
  <2>2. config' \in [ThemeCalls -> ThemeCalls \cup {None}]
    BY <1>1, <1>5 DEF ThemesType
  <2>3. publish' \in [ThemeCalls -> Publish]
    <3>1. [NoPublish EXCEPT !.unpublished_at = q.began] \in Publish
      BY <1>4, <1>5 DEF NoPublish, Publish
    <3> QED  BY <1>1, <1>5, <3>1 DEF ThemesType
  <2>4. themeCall' \in [ThemeCalls -> ThemeCall]
    <3>1. [pc |-> "done"] \in ThemeCall
      BY DEF ThemeCall
    <3>2. \A x \in ThemeCalls : themeCall'[x] \in ThemeCall
      BY <1>14, <1>15, <3>1
    <3>3. themeCall' = [x \in ThemeCalls |-> themeCall'[x]]
      BY DEF CommitUpload
    <3> QED  BY <3>2, <3>3
  <2> QED  BY <1>5, <2>1, <2>2, <2>3, <2>4 DEF ThemesType
<1>17. r \in ThemeCalls /\ themeCall'[r].pc = "done" /\ "done" \notin Uploading
  BY <1>14 DEF Uploading
<1>18. Dated'
  <2>1. \A x \in ThemeCalls : themeCall'[x].pc \in Uploading => themeCall'[x].began \in 1..clock'
    BY <1>1, <1>5, <1>15, <1>17 DEF Dated, Uploading
  <2>2. ASSUME NEW x \in Stored' PROVE theme'[x].created_at \in 1..clock'
    <3>1. CASE x = r
      BY <1>4, <1>5, <1>7, <1>10, <3>1
    <3>2. CASE x # r
      <4>1. x \in ThemeCalls \ {r} /\ x \in Stored
        BY <1>11, <3>2 DEF Stored
      <4>2. theme'[x].created_at = theme[x].created_at
        BY <1>6, <1>9, <4>1
      <4> QED  BY <1>1, <1>5, <4>1, <4>2 DEF Dated
    <3> QED  BY <3>1, <3>2
  <2> QED  BY <2>1, <2>2 DEF Dated
<1>19. Settled'
  <2>1. IsFiniteSet(Stored')
    BY <1>1, <1>11, FS_AddElement DEF Settled
  <2>2. \A x \in Stored' : config'[x] # None
    BY <1>1, <1>5, <1>11, NoneAssumption DEF Settled, ThemesType, Stored
  <2> QED  BY <1>12, <2>1, <2>2 DEF Settled
<1>20. \A x, y : Pair(x, y)' = Pair(x, y)
  BY <1>5 DEF Pair
<1>21. Apart'
  <2>1. ASSUME NEW x \in ThemeCalls, NEW y \in ThemeCalls, x # y,
               themeCall'[x].pc \in Uploading, themeCall'[y].pc \in Uploading
        PROVE  Pair(x, y)
    <3>1. x # r /\ y # r
      BY <1>17, <2>1
    <3> QED  BY <1>1, <1>15, <2>1, <3>1 DEF Apart
  <2>2. ASSUME NEW p \in ThemeCalls, NEW x \in ThemeCalls, p # x,
               themeCall'[p].pc \in Uploading \ {"deactivate"}, x \in Stored' \ themeCall'[p].rows
        PROVE  Pair(x, p)
    <3>1. p # r
      BY <1>17, <2>2
    <3>2. themeCall'[p] = themeCall[p] /\ themeCall[p].pc \in Uploading
      BY <1>15, <2>2, <3>1 DEF Uploading
    <3>3. CASE x = r
      <4>1. themeCall[r].pc \in Uploading
        BY <1>2 DEF Uploading
      <4> QED  BY <1>1, <2>2, <3>2, <3>3, <4>1 DEF Apart
    <3>4. CASE x # r
      BY <1>1, <1>11, <2>2, <3>2, <3>4 DEF Apart
    <3> QED  BY <3>3, <3>4
  <2>3. ASSUME NEW x \in Active', NEW y \in Active', x # y PROVE Pair(x, y)
    <3>1. ASSUME NEW z \in Active \ q.rows, z # r PROVE Pair(z, r)
      <4>1. z \in Stored \ themeCall[r].rows /\ z \in ThemeCalls
        BY <1>3, <3>1 DEF Active, Stored
      <4>2. themeCall[r].pc \in Uploading \ {"deactivate"}
        BY <1>2 DEF Uploading
      <4> QED  BY <1>1, <3>1, <4>1, <4>2 DEF Apart
    <3>2. \A z, w : Pair(z, w) <=> Pair(w, z)
      BY DEF Pair
    <3> QED  BY <1>1, <1>12, <2>3, <3>1, <3>2 DEF Apart
  <2> QED  BY <1>20, <2>1, <2>2, <2>3 DEF Apart
<1>22. Edited'
  BY <1>14, <1>15 DEF Edited
<1> QED  BY <1>16, <1>18, <1>19, <1>21, <1>22 DEF ThemesInv

LEMMA ThemesInitInv == ThemesInit => ThemesInv
<1> SUFFICES ASSUME ThemesInit PROVE ThemesInv
  OBVIOUS
<1>1. \A r \in ThemeCalls : theme[r] = NoTheme /\ themeCall[r] = [pc |-> "new"]
  BY DEF ThemesInit
<1>2. NoTheme \in Theme /\ NoPublish \in Publish /\ [pc |-> "new"] \in ThemeCall
  BY DEF Theme, Publish, NoPublish, ThemeCall
<1>3. ThemesType
  BY <1>2 DEF ThemesInit, ThemesType
<1>4. Stored = {} /\ Active = {}
  BY <1>1 DEF Stored, Active
<1>5. Settled
  BY <1>4, FS_EmptySet DEF Settled
<1> QED  BY <1>1, <1>3, <1>4, <1>5 DEF ThemesInv, Dated, Apart, Edited, Uploading

LEMMA ThemesStep == ThemesInv /\ (ThemesNext \/ UNCHANGED themeVars) => ThemesInv'
<1>1. ThemesInv /\ UNCHANGED themeVars => ThemesInv'
  BY DEF themeVars, ThemesInv, ThemesType, Dated, Settled, Apart, Edited, Pair, Stored, Active
<1>2. ThemesInv /\ ThemesNext => ThemesInv'
  BY ThemesUploadSteps, ThemesOtherSteps, BeginStep, CommitStep DEF ThemesNext
<1> QED  BY <1>1, <1>2

\* Of the active themes one was created last.
LEMMA SomeShown == ASSUME ThemesInv, Active # {} PROVE Shown # {}
<1>1. clock \in Nat /\ \A x \in Active : theme[x].created_at \in 1..clock
  BY DEF ThemesInv, ThemesType, Dated, Active
<1> DEFINE Ages == {clock - theme[x].created_at : x \in Active}
<1>2. Ages \subseteq Nat /\ Ages # {}
  BY <1>1
<1>3. PICK a \in Ages : \A b \in Ages : ~(<<b, a>> \in OpToRel(<, Nat))
  BY <1>2, NatLessThanWellFounded, WFMin
<1>4. \A b \in Ages : ~(b < a)
  BY <1>2, <1>3 DEF OpToRel
<1>5. PICK x \in Active : a = clock - theme[x].created_at
  BY DEF Ages
<1>6. \A y \in Active : theme[y].created_at <= theme[x].created_at
  <2> SUFFICES ASSUME NEW y \in Active PROVE theme[y].created_at <= theme[x].created_at
    OBVIOUS
  <2>1. ~(clock - theme[y].created_at < clock - theme[x].created_at)
    BY <1>4, <1>5
  <2> QED  BY <1>1, <2>1
<1> QED  BY <1>5, <1>6 DEF Shown

LEMMA OneShown == ThemesInv => OneThemeShown
<1> SUFFICES ASSUME ThemesInv PROVE OneThemeShown
  OBVIOUS
<1>1. ASSUME Stored # {} PROVE StorefrontConfig.theme # None /\ StorefrontConfig.config # None
  <2>1. Shown # {}
    BY <1>1, SomeShown DEF ThemesInv, Settled
  <2>2. PICK x \in Shown : StorefrontConfig = ThemeView(x)
    BY <2>1 DEF StorefrontConfig
  <2>3. x \in Stored /\ x \in ThemeCalls
    BY DEF Shown, Active, Stored
  <2> QED  BY <2>2, <2>3, NoneAssumption DEF ThemeView, ThemesInv, Settled
<1>2. \A x, y \in Active : x = y \/ Pair(x, y)
  BY DEF ThemesInv, Apart
<1> QED  BY <1>1, <1>2 DEF OneThemeShown, Pair

LEMMA EditShown ==
  ASSUME ThemesInv, ThemesNext \/ UNCHANGED themeVars, NEW r \in ThemeCalls,
         themeCall[r].pc = "edit", themeCall[r].default, themeCall'[r].pc = "done", ~themeCall[r].moved,
         ~(Cardinality(Active) > 1)
  PROVE  StorefrontConfig'.config = r
<1>1. ThemesType /\ Settled /\ themeCall[r].theme \in Active
  BY DEF ThemesInv, Edited
<1>2. WriteConfig(r) /\ ThemeDone(r, "done")
  <2>1. ~UNCHANGED themeVars
    BY DEF themeVars
  <2>2. PICK p \in ThemeCalls :
          \/ BeginUpload(p) \/ DeactivateThemes(p) \/ StopWaiting(p) \/ InsertTheme(p)
          \/ CommitUpload(p) \/ AbortUpload(p)
          \/ EditThemeSettings(p) \/ ReadConfig(p) \/ WriteConfig(p)
          \/ SetThemePublishStatus(p) \/ ReadPublishStatus(p) \/ WritePublishStatus(p)
    BY <2>1 DEF ThemesNext
  <2>3. ASSUME NEW q, PutCall(p, q) PROVE p = r /\ q.pc = "done"
    BY <1>1, <2>3 DEF PutCall, ThemesType
  <2>4. ~CommitUpload(p)
    <3> SUFFICES ASSUME CommitUpload(p) PROVE FALSE
      OBVIOUS
    <3>1. p # r
      BY DEF CommitUpload
    <3>2. themeCall'[r] = [themeCall[r] EXCEPT !.moved = TRUE] /\ themeCall[r] \in EditCall
      BY <1>1, <3>1, CallShape DEF CommitUpload, ThemesType
    <3> QED  BY <3>2, MovedExcept
  <2>5. p = r
    BY <2>2, <2>3, <2>4 DEF BeginUpload, DeactivateThemes, StopWaiting, InsertTheme, AbortUpload, ThemeDone,
         EditThemeSettings, ReadConfig, WriteConfig, SetThemePublishStatus, ReadPublishStatus,
         WritePublishStatus, FindTheme
  <2>6. WriteConfig(r)
    BY <2>2, <2>4, <2>5 DEF BeginUpload, DeactivateThemes, StopWaiting, InsertTheme, AbortUpload,
         EditThemeSettings, ReadConfig, SetThemePublishStatus, ReadPublishStatus, WritePublishStatus,
         FindTheme, Uploading
  <2> QED  BY <2>3, <2>5, <2>6 DEF WriteConfig, ThemeDone
<1>3. PICK x \in Active : x = themeCall[r].theme
  BY <1>1
<1>4. config' = [config EXCEPT ![x] = r] /\ UNCHANGED <<theme, publish>>
  <2>1. ~ThemeDone(r, "failed")
    BY <1>1 DEF ThemeDone, PutCall, ThemesType
  <2> QED  BY <1>2, <1>3, <2>1 DEF WriteConfig
<1>5. Active = {x}
  <2>1. IsFiniteSet(Active)
    BY <1>1, FS_Subset DEF Active, Settled
  <2>2. Cardinality(Active) \in Nat
    BY <2>1, FS_CardinalityType
  <2>3. ASSUME NEW y \in Active, y # x PROVE FALSE
    <3>1. IsFiniteSet({y}) /\ Cardinality({y}) = 1 /\ x \notin {y}
      BY <2>3, FS_Singleton
    <3>2. Cardinality({y} \cup {x}) = Cardinality({y}) + 1
      BY <3>1, FS_AddElement
    <3>3. {y} \cup {x} \in SUBSET Active
      OBVIOUS
    <3>4. Cardinality({y} \cup {x}) <= Cardinality(Active)
      BY <2>1, <3>3, FS_Subset
    <3> QED  BY <2>2, <3>1, <3>2, <3>4
  <2> QED  BY <2>3
<1>6. Active' = {x} /\ theme' = theme
  BY <1>4, <1>5 DEF Active, Stored
<1>7. Shown' = {x}
  <2>1. theme[x].created_at <= theme[x].created_at
    <3>1. theme[x].created_at \in Nat
      BY DEF ThemesInv, ThemesType, Dated, Active
    <3> QED  BY <3>1
  <2> QED  BY <1>6, <2>1 DEF Shown
<1>8. StorefrontConfig' = ThemeView(x)'
  BY <1>7 DEF StorefrontConfig
<1>9. config'[x] = r
  BY <1>1, <1>4 DEF ThemesType, Active, Stored
<1> QED  BY <1>8, <1>9 DEF ThemeView
-----------------------------------------------------------------------------
(* Lists                                                                   *)

\* A set of numbers has a least one.
LEMMA Least == ASSUME NEW T \in SUBSET Nat, T # {} PROVE \E x \in T : \A y \in T : x <= y
<1>1. PICK x \in T : \A y \in T : ~(<<y, x>> \in OpToRel(<, Nat))
  BY NatLessThanWellFounded, WFMin
<1>2. \A y \in T : ~(y < x)
  BY <1>1 DEF OpToRel
<1> QED  BY <1>2

\* A finite set as a list has all its elements.
LEMMA SetListed ==
  ASSUME NEW S, IsFiniteSet(S)
  PROVE  /\ Cardinality(S) \in Nat /\ SetToSeq(S) \in [1..Cardinality(S) -> S]
         /\ \A x \in S : \E i \in 1..Cardinality(S) : SetToSeq(S)[i] = x
<1> DEFINE n == Cardinality(S)
<1>1. n \in Nat /\ ExistsBijection(1..n, S)
  BY FS_CardinalityType
<1>2. \E f \in [1..n -> S] : IsInjective(f)
  BY <1>1 DEF ExistsBijection, Bijection, Injection
<1>3. SetToSeq(S) \in [1..n -> S] /\ IsInjective(SetToSeq(S))
  BY <1>2 DEF SetToSeq
<1>4. SetToSeq(S) \in Surjection(1..n, S)
  <2>1. IsFiniteSet(1..n) /\ Cardinality(1..n) = n
    BY <1>1, FS_Interval
  <2>2. SetToSeq(S) \in Injection(1..n, S)
    BY <1>3 DEF Injection
  <2> QED  BY <2>1, <2>2, FS_Injection
<1> QED  BY <1>1, <1>3, <1>4 DEF Surjection

Flat(s) == LET flatten[i \in 1..Len(s)] == IF i = 1 THEN s[i] ELSE flatten[i - 1] \o s[i] IN flatten

\* The concatenations of the first lists.
Concats(s, n, g) == \A i \in 1..n : g[i] = IF i = 1 THEN s[i] ELSE g[i - 1] \o s[i]

LEMMA ConcatsExist ==
  ASSUME NEW E, NEW s \in Seq(Seq(E))
  PROVE  \E g \in [1..Len(s) -> Seq(E)] : Concats(s, Len(s), g)
<1>1. Len(s) \in Nat /\ \A i \in 1..Len(s) : s[i] \in Seq(E)
  OBVIOUS
<1> DEFINE Bad == {n \in 0..Len(s) : ~\E g \in [1..n -> Seq(E)] : Concats(s, n, g)}
<1>2. Bad = {}
  <2> SUFFICES ASSUME Bad # {} PROVE FALSE
    OBVIOUS
  <2>1. Bad \in SUBSET Nat
    BY <1>1
  <2>2. PICK n \in Bad : \A m \in Bad : n <= m
    BY <2>1, Least
  <2>3. n \in 0..Len(s) /\ ~\E g \in [1..n -> Seq(E)] : Concats(s, n, g)
    OBVIOUS
  <2>4. n # 0
    <3> DEFINE e == [i \in 1..0 |-> <<>>]
    <3>1. e \in [1..0 -> Seq(E)] /\ Concats(s, 0, e)
      BY DEF Concats
    <3> QED  BY <2>3, <3>1
  <2>5. n - 1 \in 0..Len(s) /\ n - 1 \notin Bad /\ n \in Nat
    <3>1. n - 1 \in 0..Len(s) /\ n \in Nat
      BY <1>1, <2>3, <2>4
    <3> HIDE DEF Bad
    <3>2. n - 1 \notin Bad
      BY <2>2, <3>1
    <3> QED  BY <3>1, <3>2
  <2>6. PICK g \in [1..(n - 1) -> Seq(E)] : Concats(s, n - 1, g)
    BY <2>5
  <2> DEFINE h == [i \in 1..n |-> IF i = n THEN IF n = 1 THEN s[n] ELSE g[n - 1] \o s[n] ELSE g[i]]
  <2>7. h \in [1..n -> Seq(E)]
    <3>1. s[n] \in Seq(E)
      BY <1>1, <2>3, <2>4
    <3>2. n # 1 => g[n - 1] \o s[n] \in Seq(E)
      <4>1. n # 1 => n - 1 \in 1..(n - 1)
        BY <2>4, <2>5
      <4> QED  BY <3>1, <4>1
    <3>3. \A i \in 1..n : i # n => i \in 1..(n - 1)
      BY <2>5
    <3> QED  BY <3>1, <3>2, <3>3
  <2>8. Concats(s, n, h)
    <3> SUFFICES \A i \in 1..n : h[i] = IF i = 1 THEN s[i] ELSE h[i - 1] \o s[i]
      BY DEF Concats, Zenon
    <3> TAKE i \in 1..n
    <3>1. CASE i = n
      <4>1. n # 1 => n - 1 \in 1..n /\ n - 1 # n
        BY <2>4, <2>5
      <4>2. n # 1 => h[n - 1] = g[n - 1]
        BY <4>1
      <4> QED  BY <3>1, <4>2
    <3>2. CASE i # n
      <4>1. i \in 1..(n - 1) /\ (i # 1 => i - 1 \in 1..n /\ i - 1 # n)
        BY <2>5, <3>2
      <4>2. h[i] = g[i] /\ (i # 1 => h[i - 1] = g[i - 1])
        BY <3>2, <4>1
      <4> QED  BY <2>6, <4>1, <4>2 DEF Concats
    <3> QED  BY <3>1, <3>2
  <2> HIDE DEF h
  <2> QED  BY <2>3, <2>7, <2>8
<1> QED  BY <1>1, <1>2

\* What FlattenSeq builds on the way.
LEMMA FlatIs ==
  ASSUME NEW E, NEW s \in Seq(Seq(E))
  PROVE  Flat(s) \in [1..Len(s) -> Seq(E)] /\ Concats(s, Len(s), Flat(s))
<1> DEFINE F(f) == [i \in 1..Len(s) |-> IF i = 1 THEN s[i] ELSE f[i - 1] \o s[i]]
<1>1. PICK g \in [1..Len(s) -> Seq(E)] : Concats(s, Len(s), g)
  BY ConcatsExist
<1>2. g = F(g)
  BY <1>1 DEF Concats
<1>3. Flat(s) = CHOOSE f : f = F(f)
  BY DEF Flat
<1> HIDE DEF F
<1>4. Flat(s) = F(Flat(s))
  BY <1>2, <1>3
<1> DEFINE f == Flat(s)
<1>5. f = [i \in 1..Len(s) |-> IF i = 1 THEN s[i] ELSE f[i - 1] \o s[i]]
  BY <1>4 DEF F
<1> HIDE DEF f
<1>6. Concats(s, Len(s), f)
  BY <1>5 DEF Concats
<1>7. \A i \in 1..Len(s) : f[i] \in Seq(E)
  <2> SUFFICES ASSUME {i \in 1..Len(s) : f[i] \notin Seq(E)} # {} PROVE FALSE
    OBVIOUS
  <2> DEFINE Bad == {i \in 1..Len(s) : f[i] \notin Seq(E)}
  <2>1. Bad \in SUBSET Nat
    OBVIOUS
  <2>2. PICK n \in Bad : \A m \in Bad : n <= m
    BY <2>1, Least
  <2>3. n \in 1..Len(s) /\ f[n] \notin Seq(E) /\ n \in Nat /\ s[n] \in Seq(E)
    OBVIOUS
  <2>4. n # 1
    BY <1>6, <2>3 DEF Concats
  <2>5. n - 1 \in 1..Len(s) /\ n - 1 \notin Bad
    BY <2>2, <2>3, <2>4
  <2>6. f[n - 1] \in Seq(E)
    BY <2>5
  <2>7. f[n] = f[n - 1] \o s[n]
    BY <1>6, <2>3, <2>4 DEF Concats
  <2> QED  BY <2>3, <2>6, <2>7
<1>8. f \in [1..Len(s) -> Seq(E)]
  BY <1>5, <1>7
<1> QED  BY <1>6, <1>8 DEF f

Has(t, e) == \E k \in 1..Len(t) : t[k] = e

LEMMA ConcatHas ==
  ASSUME NEW E, NEW a \in Seq(E), NEW b \in Seq(E), NEW e, Has(a, e) \/ Has(b, e)
  PROVE  a \o b \in Seq(E) /\ Has(a \o b, e)
<1>1. CASE Has(a, e)
  BY <1>1 DEF Has
<1>2. CASE Has(b, e)
  <2>1. PICK k \in 1..Len(b) : b[k] = e
    BY <1>2 DEF Has
  <2>2. Len(a) + k \in 1..Len(a \o b) /\ (a \o b)[Len(a) + k] = b[k]
    OBVIOUS
  <2> QED  BY <2>1, <2>2 DEF Has
<1> QED  BY <1>1, <1>2

\* FlattenSeq loses nothing.
LEMMA FlattenHas ==
  ASSUME NEW E, NEW s \in Seq(Seq(E))
  PROVE  /\ FlattenSeq(s) \in Seq(E)
         /\ \A i \in 1..Len(s), e \in E : Has(s[i], e) => Has(FlattenSeq(s), e)
<1>1. CASE Len(s) = 0
  <2>1. FlattenSeq(s) = s /\ s = <<>>
    BY <1>1 DEF FlattenSeq
  <2> QED  BY <1>1, <2>1
<1>2. CASE Len(s) # 0
  <2>1. FlattenSeq(s) = Flat(s)[Len(s)]
    BY <1>2 DEF FlattenSeq, Flat
  <2> DEFINE f == Flat(s)
  <2>2. f \in [1..Len(s) -> Seq(E)] /\ Concats(s, Len(s), f)
    BY FlatIs
  <2>3. Len(s) \in 1..Len(s) /\ \A i \in 1..Len(s) : s[i] \in Seq(E)
    BY <1>2
  <2> HIDE DEF f
  <2>4. ASSUME NEW i \in 1..Len(s), NEW e \in E, Has(s[i], e) PROVE \A j \in i..Len(s) : Has(f[j], e)
    <3> DEFINE Bad == {j \in i..Len(s) : ~Has(f[j], e)}
    <3> SUFFICES ASSUME Bad # {} PROVE FALSE
      OBVIOUS
    <3>1. Bad \in SUBSET Nat
      OBVIOUS
    <3>2. PICK n \in Bad : \A m \in Bad : n <= m
      BY <3>1, Least
    <3>3. n \in i..Len(s) /\ n \in 1..Len(s) /\ ~Has(f[n], e)
      OBVIOUS
    <3>4. f[n] = IF n = 1 THEN s[n] ELSE f[n - 1] \o s[n]
      BY <2>2, <3>3 DEF Concats
    <3>5. CASE n = 1
      <4>1. i = 1
        BY <3>3, <3>5
      <4> QED  BY <2>4, <3>3, <3>4, <3>5, <4>1
    <3>6. CASE n # 1
      <4>1. n - 1 \in 1..Len(s) /\ f[n - 1] \in Seq(E) /\ s[n] \in Seq(E)
        <5>1. n - 1 \in 1..Len(s)
          BY <3>3, <3>6
        <5> QED  BY <2>2, <2>3, <3>3, <5>1
      <4>2. Has(f[n - 1], e) \/ Has(s[n], e)
        <5>1. CASE n = i
          BY <2>4, <5>1
        <5>2. CASE n # i
          <6>1. n - 1 \in i..Len(s)
            BY <3>3, <5>2
          <6>2. n - 1 \notin Bad
            <7> HIDE DEF Bad
            <7> QED  BY <3>2, <3>3
          <6> QED  BY <6>1, <6>2
        <5> QED  BY <5>1, <5>2
      <4> QED  BY <3>3, <3>4, <3>6, <4>1, <4>2, ConcatHas
    <3> QED  BY <3>5, <3>6
  <2>5. FlattenSeq(s) = f[Len(s)] /\ f[Len(s)] \in Seq(E)
    BY <2>1, <2>2, <2>3 DEF f
  <2>6. ASSUME NEW i \in 1..Len(s), NEW e \in E, Has(s[i], e) PROVE Has(f[Len(s)], e)
    <3>1. Len(s) \in i..Len(s)
      OBVIOUS
    <3> QED  BY <2>4, <2>6, <3>1
  <2> QED  BY <2>5, <2>6
<1> QED  BY <1>1, <1>2

\* The rows of a table, each with its events, in one list.
LEMMA RowingHas ==
  ASSUME NEW E, NEW S \in SUBSET Seq(E), IsFiniteSet(S)
  PROVE  LET t == FlattenSeq(SetToSeq(S))
         IN  t \in Seq(E) /\ \A s \in S, e \in E : Has(s, e) => Has(t, e)
<1> DEFINE l == SetToSeq(S)
<1>1. /\ Cardinality(S) \in Nat /\ l \in [1..Cardinality(S) -> S]
      /\ \A x \in S : \E i \in 1..Cardinality(S) : l[i] = x
  BY SetListed
<1> HIDE DEF l
<1>2. l \in Seq(Seq(E)) /\ Len(l) = Cardinality(S)
  BY <1>1
<1>3. /\ FlattenSeq(l) \in Seq(E)
      /\ \A i \in 1..Len(l), e \in E : Has(l[i], e) => Has(FlattenSeq(l), e)
  BY <1>2, FlattenHas
<1>4. FlattenSeq(l) \in Seq(E) /\ \A s \in S, e \in E : Has(s, e) => Has(FlattenSeq(l), e)
  BY <1>1, <1>2, <1>3
<1> QED  BY <1>4 DEF l
-----------------------------------------------------------------------------
(* The sort                                                                *)

Dates(s) == \A k \in 1..Len(s) : s[k].at \in Nat
Earlier(s, m) == {n \in 1..Len(s) : Before(s, n, m)}
Rank(s, m) == Cardinality(Earlier(s, m))

LEMMA EarlierFinite ==
  ASSUME NEW s, Len(s) \in Nat, NEW m \in 1..Len(s)
  PROVE  IsFiniteSet(Earlier(s, m)) /\ Rank(s, m) \in Nat /\ IsFiniteSet(1..Len(s)) /\ Cardinality(1..Len(s)) = Len(s)
<1>1. IsFiniteSet(1..Len(s)) /\ Cardinality(1..Len(s)) = Len(s)
  <2>1. PICK l \in Nat : l = Len(s)
    OBVIOUS
  <2>2. IsFiniteSet(1..l) /\ Cardinality(1..l) = IF 1 > l THEN 0 ELSE l - 1 + 1
    <3>1. 1 \in Int /\ l \in Int
      OBVIOUS
    <3> QED  BY <3>1, FS_Interval
  <2> QED  BY <2>1, <2>2
<1>2. IsFiniteSet(Earlier(s, m))
  BY <1>1, FS_Subset DEF Earlier
<1> QED  BY <1>1, <1>2, FS_CardinalityType DEF Rank

\* Of two places one comes before the other, and has the smaller rank.
LEMMA RankGrows ==
  ASSUME NEW s, Len(s) \in Nat, Dates(s), NEW m \in 1..Len(s), NEW n \in 1..Len(s), Before(s, m, n)
  PROVE  Rank(s, m) < Rank(s, n)
<1>1. Earlier(s, m) \cup {m} \subseteq Earlier(s, n)
  BY DEF Earlier, Before, Dates
<1>2. m \notin Earlier(s, m)
  BY DEF Earlier, Before, Dates
<1>3. IsFiniteSet(Earlier(s, m)) /\ IsFiniteSet(Earlier(s, n)) /\ Rank(s, m) \in Nat /\ Rank(s, n) \in Nat
  BY EarlierFinite
<1>4. Cardinality(Earlier(s, m) \cup {m}) = Rank(s, m) + 1
  BY <1>2, <1>3, FS_AddElement DEF Rank
<1>5. Cardinality(Earlier(s, m) \cup {m}) <= Rank(s, n)
  BY <1>1, <1>3, FS_Subset DEF Rank
<1> QED  BY <1>3, <1>4, <1>5

LEMMA OneBefore ==
  ASSUME NEW s, Dates(s), Len(s) \in Nat, NEW m \in 1..Len(s), NEW n \in 1..Len(s), m # n
  PROVE  Before(s, m, n) \/ Before(s, n, m)
<1>1. s[m].at \in Nat /\ s[n].at \in Nat
  BY DEF Dates
<1> QED  BY <1>1 DEF Before

LEMMA RankBound ==
  ASSUME NEW s, Len(s) \in Nat, Dates(s), NEW m \in 1..Len(s)
  PROVE  Rank(s, m) + 1 \in 1..Len(s)
<1>1. Earlier(s, m) \subseteq (1..Len(s)) \ {m}
  BY DEF Earlier, Before, Dates
<1>2. IsFiniteSet(1..Len(s)) /\ Cardinality(1..Len(s)) = Len(s) /\ Rank(s, m) \in Nat
  BY EarlierFinite
<1>3. IsFiniteSet((1..Len(s)) \ {m}) /\ Cardinality((1..Len(s)) \ {m}) = Len(s) - 1
  BY <1>2, FS_RemoveElement
<1>4. Rank(s, m) <= Len(s) - 1
  BY <1>1, <1>3, FS_Subset DEF Rank
<1> QED  BY <1>2, <1>4

\* Every place is taken once.
LEMMA Placed ==
  ASSUME NEW s, Len(s) \in Nat, Dates(s), NEW k \in 1..Len(s)
  PROVE  Place(s, k) \in 1..Len(s) /\ Rank(s, Place(s, k)) = k - 1
<1> DEFINE f == [m \in 1..Len(s) |-> Rank(s, m) + 1]
<1>1. f \in [1..Len(s) -> 1..Len(s)]
  BY RankBound
<1>2. IsInjective(f)
  <2> SUFFICES ASSUME NEW m \in 1..Len(s), NEW n \in 1..Len(s), Rank(s, m) + 1 = Rank(s, n) + 1, m # n
               PROVE  FALSE
    BY DEF IsInjective
  <2>1. Rank(s, m) \in Nat /\ Rank(s, n) \in Nat
    BY EarlierFinite
  <2>2. Rank(s, m) < Rank(s, n) \/ Rank(s, n) < Rank(s, m)
    BY OneBefore, RankGrows
  <2> QED  BY <2>1, <2>2
<1>3. f \in Surjection(1..Len(s), 1..Len(s))
  <2>1. IsFiniteSet(1..Len(s))
    BY EarlierFinite
  <2>2. f \in Injection(1..Len(s), 1..Len(s))
    BY <1>1, <1>2 DEF Injection
  <2> HIDE DEF f
  <2> QED  BY <2>1, <2>2, FS_Injection
<1>4. PICK m \in 1..Len(s) : f[m] = k
  BY <1>3 DEF Surjection
<1>5. Rank(s, m) = k - 1
  <2>1. Rank(s, m) \in Nat
    BY EarlierFinite
  <2> QED  BY <1>4, <2>1
<1>6. \E p \in 1..Len(s) : Cardinality({n \in 1..Len(s) : Before(s, n, p)}) = k - 1
  BY <1>5 DEF Rank, Earlier
<1> QED  BY <1>6 DEF Place, Rank, Earlier

\* The sorted list has what the list had, and nothing else, the newest first.
LEMMA Sorted ==
  ASSUME NEW E, NEW s \in Seq(E), Dates(s)
  PROVE  /\ NewestFirst(s) \in Seq(E) /\ Len(NewestFirst(s)) = Len(s)
         /\ \A e : Has(s, e) <=> Has(NewestFirst(s), e)
         /\ \A m, n \in 1..Len(s) : m < n => NewestFirst(s)[m].at >= NewestFirst(s)[n].at
<1> DEFINE t == NewestFirst(s)
<1>1. Len(s) \in Nat
  OBVIOUS
<1>2. \A k \in 1..Len(s) : Place(s, k) \in 1..Len(s) /\ Rank(s, Place(s, k)) = k - 1
  BY <1>1, Placed
<1>3. t = [k \in 1..Len(s) |-> s[Place(s, k)]]
  BY DEF NewestFirst
<1>4. t \in Seq(E) /\ Len(t) = Len(s)
  BY <1>1, <1>2, <1>3
<1>5. \A e : Has(t, e) => Has(s, e)
  BY <1>2, <1>3, <1>4 DEF Has
<1>6. ASSUME NEW e, Has(s, e) PROVE Has(t, e)
  <2>1. PICK m \in 1..Len(s) : s[m] = e
    BY <1>6 DEF Has
  <2>2. PICK k \in 1..Len(s) : k = Rank(s, m) + 1
    BY <1>1, RankBound
  <2>3. Rank(s, m) \in Nat
    BY <1>1, EarlierFinite
  <2>4. PICK p \in 1..Len(s) : p = Place(s, k)
    BY <1>2
  <2>5. p = m
    <3> SUFFICES ASSUME p # m PROVE FALSE
      OBVIOUS
    <3>1. Rank(s, p) = Rank(s, m)
      BY <1>2, <2>2, <2>3, <2>4
    <3>2. Rank(s, p) < Rank(s, m) \/ Rank(s, m) < Rank(s, p)
      BY <1>1, OneBefore, RankGrows
    <3> QED  BY <2>3, <3>1, <3>2
  <2> QED  BY <1>3, <1>4, <2>1, <2>4, <2>5 DEF Has
<1>7. ASSUME NEW m \in 1..Len(s), NEW n \in 1..Len(s), m < n PROVE t[m].at >= t[n].at
  <2>1. PICK p \in 1..Len(s) : p = Place(s, m)
    BY <1>2
  <2>2. PICK q \in 1..Len(s) : q = Place(s, n)
    BY <1>2
  <2>3. Rank(s, p) = m - 1 /\ Rank(s, q) = n - 1
    BY <1>2, <2>1, <2>2
  <2>4. p # q
    BY <1>7, <2>3
  <2>5. ~Before(s, q, p)
    <3> SUFFICES ASSUME Before(s, q, p) PROVE FALSE
      OBVIOUS
    <3>1. Rank(s, q) < Rank(s, p)
      BY <1>1, RankGrows
    <3> QED  BY <1>7, <2>3, <3>1
  <2>6. Before(s, p, q)
    BY <1>1, <2>4, <2>5, OneBefore
  <2>7. s[p].at \in Nat /\ s[q].at \in Nat
    BY DEF Dates
  <2>8. s[p].at >= s[q].at
    BY <2>6, <2>7 DEF Before
  <2> QED  BY <1>3, <2>1, <2>2, <2>8
<1> QED  BY <1>4, <1>5, <1>6, <1>7
-----------------------------------------------------------------------------
(* Orders                                                                  *)

FulfillmentsOK(f) == f \in [Rows -> Fulfillment] /\ IsFiniteSet(Existing(f))
RefundsOK(x) == x \in [Rows -> Refund] /\ IsFiniteSet(Existing(x))
ReturnsOK(x) == x \in [Rows -> Return] /\ IsFiniteSet(Existing(x))

OrdersType ==
  /\ order \in [created : {1}, updated : Times]
  /\ FulfillmentsOK(fulfillments) /\ RefundsOK(refunds) /\ ReturnsOK(returns)
  /\ writes \in 0..MaxWrites /\ time \in 1..(writes + 1)

\* What a table may hold, and what it still holds later.
ReadOK(n, v) ==
  /\ n = "order" => v \in [created : {1}, updated : Times]
  /\ n = "fulfillment" => FulfillmentsOK(v)
  /\ n = "refund" => RefundsOK(v)
  /\ n = "return" => ReturnsOK(v)
Since(n, before, v) ==
  /\ n # "order" => Existing(before) \subseteq Existing(v)
  /\ n = "fulfillment" => \A f \in Existing(before) : before[f].tracked => v[f].tracked

Reading(q) ==
  timeline[q].pc = "reading" =>
    /\ DOMAIN timeline[q] = {"pc", "read", "before"} /\ DOMAIN timeline[q].read \subseteq Tables
    /\ \A n \in Tables : Since(n, timeline[q].before[n], Snapshot[n])
    /\ \A n \in DOMAIN timeline[q].read :
         ReadOK(n, timeline[q].read[n]) /\ Since(n, timeline[q].before[n], timeline[q].read[n])

Answered(q) ==
  timeline[q].pc = "answered" =>
    HasAll(timeline[q].before, timeline[q].events) /\ InOrder(timeline[q].events)

OrdersInv ==
  /\ OrdersType /\ timeline = [q \in Readers |-> timeline[q]]
  /\ \A q \in Readers : Reading(q) /\ Answered(q)

LEMMA TimesAre == Times \subseteq Nat \ {0} /\ 1 \in Times
BY WritesAssumption DEF Times

\* Rows that were created are told from those that were not.
LEMMA RowShape ==
  /\ \A f \in Fulfillment : f # NoRow => f \in [created : Times, updated : Times, tracked : BOOLEAN]
  /\ \A f \in [created : Times, updated : Times, tracked : BOOLEAN] : f # NoRow /\ f \in Fulfillment
  /\ \A x \in Return : x # NoRow => x \in [created : Times, updated : Times]
  /\ \A x \in [created : Times, updated : Times] : x # NoRow /\ x \in Return
  /\ \A x \in Refund : x # NoRow => x \in [created : Times, payment : 1..2]
  /\ \A x \in [created : Times, payment : 1..2] : x # NoRow /\ x \in Refund
BY DEF Fulfillment, Return, Refund, NoRow

LEMMA SnapshotFields ==
  /\ DOMAIN Snapshot = Tables /\ Snapshot["order"] = order /\ Snapshot["fulfillment"] = fulfillments
  /\ Snapshot["return"] = returns /\ Snapshot["refund"] = refunds
BY DEF Snapshot, Tables

LEMMA SnapshotOK == ASSUME OrdersType, NEW n \in Tables PROVE ReadOK(n, Snapshot[n])
BY SnapshotFields DEF OrdersType, ReadOK

LEMMA SinceAll ==
  ASSUME NEW n, NEW a, NEW b, NEW c, Since(n, a, b), Since(n, b, c)
  PROVE  Since(n, a, c)
<1>1. n # "order" => Existing(a) \subseteq Existing(b) /\ Existing(b) \subseteq Existing(c)
  BY DEF Since
<1>2. n = "fulfillment" => \A f \in Existing(a) : a[f].tracked => c[f].tracked
  BY <1>1 DEF Since
<1> QED  BY <1>1, <1>2 DEF Since

\* A row is put where none was, or over the one that was.
LEMMA PutRow ==
  ASSUME NEW t, DOMAIN t = Rows, IsFiniteSet(Existing(t)), NEW x \in Rows, NEW row, row # NoRow,
         NEW u, u = [t EXCEPT ![x] = row]
  PROVE  Existing(u) = Existing(t) \cup {x} /\ IsFiniteSet(Existing(u))
<1>1. Existing(u) = Existing(t) \cup {x}
  BY DEF Existing
<1>2. IsFiniteSet(Existing(t) \cup {x})
  BY FS_AddElement
<1> QED  BY <1>1, <1>2

\* A write to the tables of the order.
WriteStep ==
  /\ OrdersType'
  /\ UNCHANGED timeline /\ order.created' = order.created
  /\ \A n \in Tables : Since(n, Snapshot[n], Snapshot'[n])

LEMMA WriteKeeps == ASSUME OrdersInv, WriteStep PROVE OrdersInv'
<1>1. ASSUME NEW q \in Readers PROVE Reading(q)' /\ Answered(q)'
  <2>1. Reading(q) /\ Answered(q) /\ timeline' = timeline
    BY DEF OrdersInv, WriteStep
  <2>2. Answered(q)'
    <3>1. InOrder(timeline[q].events) => InOrder(timeline[q].events)'
      BY <2>1 DEF InOrder, WriteStep
    <3> QED  BY <2>1, <3>1 DEF Answered, HasAll, Listing, Existing
  <2>3. ASSUME timeline[q].pc = "reading", NEW n \in Tables
        PROVE  Since(n, timeline[q].before[n], Snapshot'[n])
    <3>1. Since(n, timeline[q].before[n], Snapshot[n]) /\ Since(n, Snapshot[n], Snapshot'[n])
      BY <2>1, <2>3 DEF Reading, WriteStep
    <3> QED  BY <3>1, SinceAll
  <2> QED  BY <2>1, <2>2, <2>3 DEF Reading
<1> QED  BY <1>1 DEF OrdersInv, WriteStep
-----------------------------------------------------------------------------
(* Writes                                                                  *)

LEMMA TouchStep ==
  ASSUME OrdersInv, NEW now \in {time, time + 1}, Touch(now), writes < MaxWrites,
         FulfillmentsOK(fulfillments'), RefundsOK(refunds'), ReturnsOK(returns'),
         Since("fulfillment", fulfillments, fulfillments'), Since("refund", refunds, refunds'),
         Since("return", returns, returns')
  PROVE  OrdersInv'
<1>1. OrdersType
  BY DEF OrdersInv
<1>2. writes' = writes + 1 /\ writes' \in 0..MaxWrites /\ now \in Times /\ time' \in 1..(writes' + 1)
  BY <1>1, WritesAssumption DEF OrdersType, Touch, Times
<1>3. order' \in [created : {1}, updated : Times]
  BY <1>1, <1>2 DEF OrdersType, Touch
<1>4. OrdersType'
  BY <1>2, <1>3 DEF OrdersType
<1>5. order'.created = order.created
  BY <1>1, <1>3 DEF OrdersType
<1>6. ASSUME NEW n \in Tables PROVE Since(n, Snapshot[n], Snapshot'[n])
  <2>1. /\ Snapshot'["fulfillment"] = fulfillments' /\ Snapshot'["return"] = returns'
        /\ Snapshot'["refund"] = refunds'
    BY DEF Snapshot
  <2>2. n \in {"order", "fulfillment", "return", "refund"}
    BY DEF Tables
  <2>3. CASE n = "order"
    BY <2>3 DEF Since
  <2>4. CASE n # "order"
    BY <2>1, <2>2, <2>4, SnapshotFields
  <2> QED  BY <2>3, <2>4
<1>7. WriteStep
  BY <1>4, <1>5, <1>6 DEF WriteStep, Touch
<1> QED  BY <1>7, WriteKeeps

LEMMA SinceSame == \A n, t : Since(n, t, t)
BY DEF Since

LEMMA FulfillmentWrites ==
  ASSUME OrdersInv, NEW now \in {time, time + 1}, writes < MaxWrites,
         CreateFulfillment(now) \/ UpdateTracking(now)
  PROVE  OrdersInv'
<1>1. OrdersType /\ FulfillmentsOK(fulfillments) /\ RefundsOK(refunds) /\ ReturnsOK(returns)
  BY DEF OrdersInv, OrdersType
<1>2. now \in Times
  BY <1>1, WritesAssumption DEF OrdersType, Times
<1>3. PICK f \in Rows, row \in [created : Times, updated : Times, tracked : BOOLEAN] :
        /\ fulfillments' = [fulfillments EXCEPT ![f] = row]
        /\ f \in Existing(fulfillments) => row.tracked
  <2>1. CASE CreateFulfillment(now)
    <3>1. PICK f \in Fresh(fulfillments) : fulfillments' = Fulfilled(f, now)
      BY <2>1 DEF CreateFulfillment
    <3>2. f \in Rows /\ f \notin Existing(fulfillments)
      BY <1>1 DEF Fresh, Existing, FulfillmentsOK
    <3> DEFINE row == [created |-> now, updated |-> now, tracked |-> FALSE]
    <3>3. row \in [created : Times, updated : Times, tracked : BOOLEAN]
      BY <1>2
    <3>4. fulfillments' = [fulfillments EXCEPT ![f] = row]
      BY <3>1 DEF Fulfilled
    <3> HIDE DEF row
    <3> QED  BY <3>2, <3>3, <3>4
  <2>2. CASE UpdateTracking(now)
    <3>1. PICK f \in Existing(fulfillments) : fulfillments' = Shipped(f, now)
      BY <2>2 DEF UpdateTracking
    <3>2. f \in Rows /\ fulfillments[f] \in [created : Times, updated : Times, tracked : BOOLEAN]
      BY <1>1, RowShape DEF Existing, FulfillmentsOK
    <3> DEFINE row == [fulfillments[f] EXCEPT !.updated = now, !.tracked = TRUE]
    <3>3. row \in [created : Times, updated : Times, tracked : BOOLEAN] /\ row.tracked
      BY <1>2, <3>2
    <3>4. fulfillments' = [fulfillments EXCEPT ![f] = row]
      BY <1>1, <3>1, <3>2 DEF Shipped, FulfillmentsOK
    <3> HIDE DEF row
    <3> QED  BY <3>2, <3>3, <3>4
  <2> QED  BY <2>1, <2>2
<1>4. row # NoRow /\ row \in Fulfillment
  BY RowShape
<1>5. FulfillmentsOK(fulfillments') /\ Existing(fulfillments') = Existing(fulfillments) \cup {f}
  <2>1. fulfillments \in [Rows -> Fulfillment] /\ IsFiniteSet(Existing(fulfillments)) /\ DOMAIN fulfillments = Rows
    BY <1>1 DEF FulfillmentsOK
  <2>2. fulfillments' \in [Rows -> Fulfillment]
    BY <1>3, <1>4, <2>1
  <2>3. Existing(fulfillments') = Existing(fulfillments) \cup {f} /\ IsFiniteSet(Existing(fulfillments'))
    BY <1>3, <1>4, <2>1, PutRow
  <2> QED  BY <2>2, <2>3 DEF FulfillmentsOK
<1>6. Since("fulfillment", fulfillments, fulfillments')
  <2>1. ASSUME NEW g \in Existing(fulfillments), fulfillments[g].tracked PROVE fulfillments'[g].tracked
    <3>1. g \in Rows
      BY <1>1 DEF FulfillmentsOK, Existing
    <3> QED  BY <1>1, <1>3, <2>1, <3>1 DEF FulfillmentsOK
  <2> QED  BY <1>5, <2>1 DEF Since
<1>7. Touch(now) /\ UNCHANGED <<returns, refunds>>
  BY DEF CreateFulfillment, UpdateTracking
<1> QED  BY <1>1, <1>5, <1>6, <1>7, SinceSame, TouchStep

LEMMA RefundWrites ==
  ASSUME OrdersInv, NEW now \in {time, time + 1}, writes < MaxWrites, HandleRefund(now)
  PROVE  OrdersInv'
<1>1. OrdersType /\ FulfillmentsOK(fulfillments) /\ RefundsOK(refunds) /\ ReturnsOK(returns)
  BY DEF OrdersInv, OrdersType
<1>2. now \in Times
  BY <1>1, WritesAssumption DEF OrdersType, Times
<1>3. PICK payments \in 0..2 : \E n \in 0..payments, y \in Fresh(refunds) :
                     /\ n # 0 \/ payments > 0
                     /\ refunds' = Refunded(y, ResolvePayment(n), now)
  BY DEF HandleRefund
<1>4. PICK named \in 0..payments, x \in Fresh(refunds) : refunds' = Refunded(x, ResolvePayment(named), now)
  BY <1>3
<1> DEFINE row == [created |-> now, payment |-> ResolvePayment(named)]
<1>5. ResolvePayment(named) \in 1..2
  BY DEF ResolvePayment
<1>6. row \in [created : Times, payment : 1..2]
  BY <1>2, <1>5
<1>7. refunds' = [refunds EXCEPT ![x] = row] /\ x \in Rows
  BY <1>1, <1>4 DEF Refunded, Fresh, RefundsOK
<1> HIDE DEF row
<1>8. row # NoRow /\ row \in Refund
  BY <1>6, RowShape
<1>9. RefundsOK(refunds') /\ Existing(refunds') = Existing(refunds) \cup {x}
  <2>1. refunds \in [Rows -> Refund] /\ IsFiniteSet(Existing(refunds)) /\ DOMAIN refunds = Rows
    BY <1>1 DEF RefundsOK
  <2>2. refunds' \in [Rows -> Refund]
    BY <1>7, <1>8, <2>1
  <2>3. Existing(refunds') = Existing(refunds) \cup {x} /\ IsFiniteSet(Existing(refunds'))
    BY <1>7, <1>8, <2>1, PutRow
  <2> QED  BY <2>2, <2>3 DEF RefundsOK
<1>10. Since("refund", refunds, refunds')
  BY <1>9 DEF Since
<1>11. Touch(now) /\ UNCHANGED <<fulfillments, returns>>
  BY DEF HandleRefund
<1> QED  BY <1>1, <1>9, <1>10, <1>11, SinceSame, TouchStep

LEMMA ReturnWrites ==
  ASSUME OrdersInv, NEW now \in {time, time + 1}, writes < MaxWrites,
         ManageReturn(now) \/ CreateCustomerReturn(now)
  PROVE  OrdersInv'
<1>1. OrdersType /\ FulfillmentsOK(fulfillments) /\ RefundsOK(refunds) /\ ReturnsOK(returns)
  BY DEF OrdersInv, OrdersType
<1>2. now \in Times
  BY <1>1, WritesAssumption DEF OrdersType, Times
<1>3. PICK action : returns' \in Returned(action, now)
  BY DEF ManageReturn, CreateCustomerReturn
<1>4. PICK x \in Rows, row \in [created : Times, updated : Times] : returns' = [returns EXCEPT ![x] = row]
  <2>1. CASE action = "begin"
    <3>1. PICK x \in Fresh(returns) : returns' = [returns EXCEPT ![x] = [created |-> now, updated |-> now]]
      BY <1>3, <2>1 DEF Returned
    <3>2. x \in Rows /\ [created |-> now, updated |-> now] \in [created : Times, updated : Times]
      BY <1>1, <1>2 DEF Fresh, ReturnsOK
    <3> QED  BY <3>1, <3>2
  <2>2. CASE action # "begin"
    <3>1. PICK x \in Existing(returns) : returns' = [returns EXCEPT ![x].updated = now]
      BY <1>3, <2>2 DEF Returned
    <3>2. x \in Rows /\ returns[x] \in [created : Times, updated : Times]
      BY <1>1, RowShape DEF Existing, ReturnsOK
    <3> DEFINE row == [returns[x] EXCEPT !.updated = now]
    <3>3. row \in [created : Times, updated : Times]
      BY <1>2, <3>2
    <3>4. returns' = [returns EXCEPT ![x] = row]
      BY <3>1
    <3> HIDE DEF row
    <3> QED  BY <3>2, <3>3, <3>4
  <2> QED  BY <2>1, <2>2
<1>5. row # NoRow /\ row \in Return
  BY RowShape
<1>6. ReturnsOK(returns') /\ Existing(returns') = Existing(returns) \cup {x}
  <2>1. returns \in [Rows -> Return] /\ IsFiniteSet(Existing(returns)) /\ DOMAIN returns = Rows
    BY <1>1 DEF ReturnsOK
  <2>2. returns' \in [Rows -> Return]
    BY <1>4, <1>5, <2>1
  <2>3. Existing(returns') = Existing(returns) \cup {x} /\ IsFiniteSet(Existing(returns'))
    BY <1>4, <1>5, <2>1, PutRow
  <2> QED  BY <2>2, <2>3 DEF ReturnsOK
<1>7. Since("return", returns, returns')
  BY <1>6 DEF Since
<1>8. Touch(now) /\ UNCHANGED <<fulfillments, refunds>>
  BY DEF ManageReturn, CreateCustomerReturn
<1> QED  BY <1>1, <1>6, <1>7, <1>8, SinceSame, TouchStep

LEMMA OrdersInitInv == OrdersInit => OrdersInv
<1> SUFFICES ASSUME OrdersInit PROVE OrdersInv
  OBVIOUS
<1>1. NoRow \in Fulfillment /\ NoRow \in Return /\ NoRow \in Refund
  BY DEF Fulfillment, Return, Refund
<1>2. Existing(fulfillments) = {} /\ Existing(returns) = {} /\ Existing(refunds) = {}
  BY DEF OrdersInit, Existing
<1>3. FulfillmentsOK(fulfillments) /\ ReturnsOK(returns) /\ RefundsOK(refunds)
  <2>1. IsFiniteSet({})
    BY FS_EmptySet
  <2>2. /\ fulfillments \in [Rows -> Fulfillment] /\ returns \in [Rows -> Return]
        /\ refunds \in [Rows -> Refund]
    BY <1>1 DEF OrdersInit
  <2> QED  BY <1>2, <2>1, <2>2 DEF FulfillmentsOK, ReturnsOK, RefundsOK
<1>4. OrdersType
  BY <1>3, TimesAre, WritesAssumption DEF OrdersInit, OrdersType
<1>5. timeline = [q \in Readers |-> timeline[q]] /\ \A q \in Readers : timeline[q].pc = "new"
  BY DEF OrdersInit
<1> QED  BY <1>4, <1>5 DEF OrdersInv, Reading, Answered
-----------------------------------------------------------------------------
(* The timeline of a moment                                                *)

Events == [type : EventTypes, id : Rows \cup {0}, at : Nat \ {0}]

LEMMA EventType ==
  ASSUME NEW type \in EventTypes, NEW id \in Rows \cup {0}, NEW at \in Times
  PROVE  Event(type, id, at) \in Events
BY TimesAre DEF Event, Events

\* The lists that the rows of one table give.
FulfillmentList(t, f) ==
  <<Event("fulfillment.created", f, t[f].created)>>
  \o (IF t[f].tracked THEN <<Event("fulfillment.shipped", f, t[f].updated)>> ELSE <<>>)
RefundList(t, x) == <<Event("refund.created", x, t[x].created)>>
ReturnList(t, x) ==
  <<Event("return.created", x, t[x].created)>>
  \o (IF t[x].updated # t[x].created THEN <<Event("return.updated", x, t[x].updated)>> ELSE <<>>)

LEMMA ListsOf ==
  /\ \A t : EventsOfFulfillments(t) = FlattenSeq(SetToSeq({FulfillmentList(t, x) : x \in Existing(t)}))
  /\ \A t : EventsOfRefunds(t) = FlattenSeq(SetToSeq({RefundList(t, x) : x \in Existing(t)}))
  /\ \A t : EventsOfReturns(t) = FlattenSeq(SetToSeq({ReturnList(t, x) : x \in Existing(t)}))
BY DEF EventsOfFulfillments, EventsOfRefunds, EventsOfReturns, Rowing, FulfillmentList, RefundList, ReturnList

LEMMA FiniteImage == ASSUME NEW D, IsFiniteSet(D), NEW f PROVE IsFiniteSet({f[x] : x \in D})
<1> DEFINE S == {f[x] : x \in D}
           g == [x \in D |-> f[x]]
<1>1. g \in Surjection(D, S)
  BY DEF Surjection
<1> HIDE DEF g
<1> QED  BY <1>1, FS_Surjection

\* The pairs and single events these lists are.
LEMMA PairHas ==
  ASSUME NEW E, NEW a \in E, NEW b \in E
  PROVE  /\ <<a>> \in Seq(E) /\ Has(<<a>>, a)
         /\ <<a>> \o <<>> \in Seq(E) /\ Has(<<a>> \o <<>>, a)
         /\ <<a>> \o <<b>> \in Seq(E) /\ Has(<<a>> \o <<b>>, a) /\ Has(<<a>> \o <<b>>, b)
<1>1. <<a>> \in Seq(E) /\ <<b>> \in Seq(E) /\ <<>> \in Seq(E)
  OBVIOUS
<1>2. Has(<<a>>, a) /\ Has(<<b>>, b)
  <2>1. 1 \in 1..Len(<<a>>) /\ <<a>>[1] = a /\ 1 \in 1..Len(<<b>>) /\ <<b>>[1] = b
    OBVIOUS
  <2> QED  BY <2>1 DEF Has
<1> QED  BY <1>1, <1>2, ConcatHas

LEMMA FulfillmentEvents ==
  ASSUME NEW t, FulfillmentsOK(t)
  PROVE  /\ EventsOfFulfillments(t) \in Seq(Events)
         /\ \A f \in Existing(t) :
              /\ Has(EventsOfFulfillments(t), Event("fulfillment.created", f, t[f].created))
              /\ t[f].tracked => Has(EventsOfFulfillments(t), Event("fulfillment.shipped", f, t[f].updated))
<1> DEFINE S == {FulfillmentList(t, x) : x \in Existing(t)}
<1>1. ASSUME NEW f \in Existing(t)
      PROVE  /\ Event("fulfillment.created", f, t[f].created) \in Events
             /\ Event("fulfillment.shipped", f, t[f].updated) \in Events
             /\ FulfillmentList(t, f) \in Seq(Events)
             /\ Has(FulfillmentList(t, f), Event("fulfillment.created", f, t[f].created))
             /\ t[f].tracked => Has(FulfillmentList(t, f), Event("fulfillment.shipped", f, t[f].updated))
  <2>1. t[f] \in [created : Times, updated : Times, tracked : BOOLEAN] /\ f \in Rows
    BY RowShape DEF FulfillmentsOK, Existing
  <2> DEFINE a == Event("fulfillment.created", f, t[f].created)
             b == Event("fulfillment.shipped", f, t[f].updated)
  <2>2. a \in Events /\ b \in Events
    BY <2>1, EventType DEF EventTypes
  <2>3. FulfillmentList(t, f) = <<a>> \o (IF t[f].tracked THEN <<b>> ELSE <<>>)
    BY DEF FulfillmentList
  <2> HIDE DEF a, b
  <2>4. FulfillmentList(t, f) \in Seq(Events) /\ Has(FulfillmentList(t, f), a)
        /\ (t[f].tracked => Has(FulfillmentList(t, f), b))
    BY <2>2, <2>3, PairHas
  <2> QED  BY <2>2, <2>4 DEF a, b
<1>2. S \in SUBSET Seq(Events) /\ IsFiniteSet(S)
  <2> DEFINE g == [x \in Existing(t) |-> FulfillmentList(t, x)]
  <2>1. S = {g[x] : x \in Existing(t)}
    OBVIOUS
  <2>2. IsFiniteSet({g[x] : x \in Existing(t)})
    <3> HIDE DEF g
    <3> QED  BY FiniteImage DEF FulfillmentsOK
  <2> QED  BY <1>1, <2>1, <2>2
<1>3. EventsOfFulfillments(t) = FlattenSeq(SetToSeq(S))
  BY ListsOf
<1>4. \A f \in Existing(t) : FulfillmentList(t, f) \in S
  OBVIOUS
<1> HIDE DEF S
<1>5. /\ EventsOfFulfillments(t) \in Seq(Events)
      /\ \A s \in S, e \in Events : Has(s, e) => Has(EventsOfFulfillments(t), e)
  BY <1>2, <1>3, RowingHas
<1> QED  BY <1>1, <1>4, <1>5

LEMMA RefundEvents ==
  ASSUME NEW t, RefundsOK(t)
  PROVE  /\ EventsOfRefunds(t) \in Seq(Events)
         /\ \A x \in Existing(t) : Has(EventsOfRefunds(t), Event("refund.created", x, t[x].created))
<1> DEFINE S == {RefundList(t, x) : x \in Existing(t)}
<1>1. ASSUME NEW x \in Existing(t)
      PROVE  /\ Event("refund.created", x, t[x].created) \in Events
             /\ RefundList(t, x) \in Seq(Events)
             /\ Has(RefundList(t, x), Event("refund.created", x, t[x].created))
  <2>1. t[x] \in [created : Times, payment : 1..2] /\ x \in Rows
    BY RowShape DEF RefundsOK, Existing
  <2> DEFINE a == Event("refund.created", x, t[x].created)
  <2>2. a \in Events
    BY <2>1, EventType DEF EventTypes
  <2>3. RefundList(t, x) = <<a>>
    BY DEF RefundList
  <2> HIDE DEF a
  <2>4. RefundList(t, x) \in Seq(Events) /\ Has(RefundList(t, x), a)
    BY <2>2, <2>3, PairHas
  <2> QED  BY <2>2, <2>4 DEF a
<1>2. S \in SUBSET Seq(Events) /\ IsFiniteSet(S)
  <2> DEFINE g == [x \in Existing(t) |-> RefundList(t, x)]
  <2>1. S = {g[x] : x \in Existing(t)}
    OBVIOUS
  <2>2. IsFiniteSet({g[x] : x \in Existing(t)})
    <3> HIDE DEF g
    <3> QED  BY FiniteImage DEF RefundsOK
  <2> QED  BY <1>1, <2>1, <2>2
<1>3. EventsOfRefunds(t) = FlattenSeq(SetToSeq(S))
  BY ListsOf
<1>4. \A x \in Existing(t) : RefundList(t, x) \in S
  OBVIOUS
<1> HIDE DEF S
<1>5. /\ EventsOfRefunds(t) \in Seq(Events)
      /\ \A s \in S, e \in Events : Has(s, e) => Has(EventsOfRefunds(t), e)
  BY <1>2, <1>3, RowingHas
<1> QED  BY <1>1, <1>4, <1>5

LEMMA ReturnEvents ==
  ASSUME NEW t, ReturnsOK(t)
  PROVE  /\ EventsOfReturns(t) \in Seq(Events)
         /\ \A x \in Existing(t) : Has(EventsOfReturns(t), Event("return.created", x, t[x].created))
<1> DEFINE S == {ReturnList(t, x) : x \in Existing(t)}
<1>1. ASSUME NEW x \in Existing(t)
      PROVE  /\ Event("return.created", x, t[x].created) \in Events
             /\ ReturnList(t, x) \in Seq(Events)
             /\ Has(ReturnList(t, x), Event("return.created", x, t[x].created))
  <2>1. t[x] \in [created : Times, updated : Times] /\ x \in Rows
    BY RowShape DEF ReturnsOK, Existing
  <2> DEFINE a == Event("return.created", x, t[x].created)
             b == Event("return.updated", x, t[x].updated)
  <2>2. a \in Events /\ b \in Events
    BY <2>1, EventType DEF EventTypes
  <2>3. ReturnList(t, x) = <<a>> \o (IF t[x].updated # t[x].created THEN <<b>> ELSE <<>>)
    BY DEF ReturnList
  <2> HIDE DEF a, b
  <2>4. ReturnList(t, x) \in Seq(Events) /\ Has(ReturnList(t, x), a)
    BY <2>2, <2>3, PairHas
  <2> QED  BY <2>2, <2>4 DEF a
<1>2. S \in SUBSET Seq(Events) /\ IsFiniteSet(S)
  <2> DEFINE g == [x \in Existing(t) |-> ReturnList(t, x)]
  <2>1. S = {g[x] : x \in Existing(t)}
    OBVIOUS
  <2>2. IsFiniteSet({g[x] : x \in Existing(t)})
    <3> HIDE DEF g
    <3> QED  BY FiniteImage DEF ReturnsOK
  <2> QED  BY <1>1, <2>1, <2>2
<1>3. EventsOfReturns(t) = FlattenSeq(SetToSeq(S))
  BY ListsOf
<1>4. \A x \in Existing(t) : ReturnList(t, x) \in S
  OBVIOUS
<1> HIDE DEF S
<1>5. /\ EventsOfReturns(t) \in Seq(Events)
      /\ \A s \in S, e \in Events : Has(s, e) => Has(EventsOfReturns(t), e)
  BY <1>2, <1>3, RowingHas
<1> QED  BY <1>1, <1>4, <1>5

LEMMA OrderEvents ==
  ASSUME NEW o \in [created : {1}, updated : Times]
  PROVE  EventsOfOrder(o) \in Seq(Events) /\ Has(EventsOfOrder(o), Event("order.created", 0, 1))
<1> DEFINE a == Event("order.created", 0, 1)
           b == Event("order.updated", 0, o.updated)
<1>1. a \in Events /\ b \in Events
  BY TimesAre, EventType DEF EventTypes
<1>2. EventsOfOrder(o) = <<a>> \o (IF o.updated # o.created THEN <<b>> ELSE <<>>)
  BY DEF EventsOfOrder
<1> HIDE DEF a, b
<1>3. EventsOfOrder(o) \in Seq(Events) /\ Has(EventsOfOrder(o), a)
  BY <1>1, <1>2, PairHas
<1> QED  BY <1>3 DEF a

\* A timeline lists what its tables hold, the newest first.
LEMMA TimelineOf ==
  ASSUME NEW read, \A n \in Tables : ReadOK(n, read[n])
  PROVE  LET t == Timeline(read)
         IN  /\ t \in Seq(Events) /\ Has(t, Event("order.created", 0, 1))
             /\ \A m, n \in 1..Len(t) : m < n => t[m].at >= t[n].at
             /\ \A f \in Existing(read["fulfillment"]) :
                  /\ Has(t, Event("fulfillment.created", f, read["fulfillment"][f].created))
                  /\ read["fulfillment"][f].tracked
                       => Has(t, Event("fulfillment.shipped", f, read["fulfillment"][f].updated))
             /\ \A x \in Existing(read["refund"]) : Has(t, Event("refund.created", x, read["refund"][x].created))
             /\ \A x \in Existing(read["return"]) : Has(t, Event("return.created", x, read["return"][x].created))
<1> DEFINE a == EventsOfOrder(read["order"])
           b == EventsOfFulfillments(read["fulfillment"])
           c == EventsOfRefunds(read["refund"])
           d == EventsOfReturns(read["return"])
           s == a \o b \o c \o d
<1>1. /\ read["order"] \in [created : {1}, updated : Times] /\ FulfillmentsOK(read["fulfillment"])
      /\ RefundsOK(read["refund"]) /\ ReturnsOK(read["return"])
  BY DEF Tables, ReadOK
<1>2. a \in Seq(Events) /\ b \in Seq(Events) /\ c \in Seq(Events) /\ d \in Seq(Events)
  BY <1>1, OrderEvents, FulfillmentEvents, RefundEvents, ReturnEvents
<1>3. Timeline(read) = NewestFirst(s)
  BY DEF Timeline
<1>4. ASSUME NEW A \in Seq(Events), NEW B \in Seq(Events), NEW C \in Seq(Events), NEW D \in Seq(Events)
      PROVE  /\ A \o B \o C \o D \in Seq(Events)
             /\ \A e : Has(A, e) \/ Has(B, e) \/ Has(C, e) \/ Has(D, e) => Has(A \o B \o C \o D, e)
  <2>1. A \o B \in Seq(Events) /\ A \o B \o C \in Seq(Events) /\ A \o B \o C \o D \in Seq(Events)
    OBVIOUS
  <2>2. \A e : Has(A, e) \/ Has(B, e) => Has(A \o B, e)
    BY ConcatHas
  <2>3. \A e : Has(A \o B, e) \/ Has(C, e) => Has(A \o B \o C, e)
    BY <2>1, ConcatHas
  <2>4. \A e : Has(A \o B \o C, e) \/ Has(D, e) => Has(A \o B \o C \o D, e)
    BY <2>1, ConcatHas
  <2> QED  BY <2>1, <2>2, <2>3, <2>4
<1>5. /\ Has(a, Event("order.created", 0, 1))
      /\ \A f \in Existing(read["fulfillment"]) :
           /\ Has(b, Event("fulfillment.created", f, read["fulfillment"][f].created))
           /\ read["fulfillment"][f].tracked
                => Has(b, Event("fulfillment.shipped", f, read["fulfillment"][f].updated))
      /\ \A x \in Existing(read["refund"]) : Has(c, Event("refund.created", x, read["refund"][x].created))
      /\ \A x \in Existing(read["return"]) : Has(d, Event("return.created", x, read["return"][x].created))
  BY <1>1, OrderEvents, FulfillmentEvents, RefundEvents, ReturnEvents
<1> HIDE DEF a, b, c, d
<1>6. s \in Seq(Events) /\ \A e : Has(a, e) \/ Has(b, e) \/ Has(c, e) \/ Has(d, e) => Has(s, e)
  BY <1>2, <1>4
<1> HIDE DEF s
<1>7. Dates(s)
  <2>1. \A k \in 1..Len(s) : s[k] \in Events
    BY <1>6
  <2>2. \A e \in Events : e.at \in Nat
    BY DEF Events
  <2> QED  BY <2>1, <2>2 DEF Dates
<1>8. /\ NewestFirst(s) \in Seq(Events) /\ Len(NewestFirst(s)) = Len(s)
      /\ \A e : Has(s, e) <=> Has(NewestFirst(s), e)
      /\ \A m, n \in 1..Len(s) : m < n => NewestFirst(s)[m].at >= NewestFirst(s)[n].at
  BY <1>6, <1>7, Sorted
<1> DEFINE t == Timeline(read)
<1>9. t \in Seq(Events) /\ (\A m, n \in 1..Len(t) : m < n => t[m].at >= t[n].at)
      /\ \A e : Has(a, e) \/ Has(b, e) \/ Has(c, e) \/ Has(d, e) => Has(t, e)
  BY <1>3, <1>6, <1>8
<1> HIDE DEF t
<1>10. /\ Has(t, Event("order.created", 0, 1))
       /\ \A f \in Existing(read["fulfillment"]) :
            /\ Has(t, Event("fulfillment.created", f, read["fulfillment"][f].created))
            /\ read["fulfillment"][f].tracked
                 => Has(t, Event("fulfillment.shipped", f, read["fulfillment"][f].updated))
       /\ \A x \in Existing(read["refund"]) : Has(t, Event("refund.created", x, read["refund"][x].created))
       /\ \A x \in Existing(read["return"]) : Has(t, Event("return.created", x, read["return"][x].created))
  BY <1>5, <1>9
<1> QED  BY <1>9, <1>10 DEF t
-----------------------------------------------------------------------------
(* Timelines that are read                                                 *)

LEMMA HasLists == ASSUME NEW t, NEW type, NEW id, NEW at, Has(t, Event(type, id, at)) PROVE Listing(t, type, id)
<1>1. PICK k \in 1..Len(t) : t[k] = Event(type, id, at)
  BY DEF Has
<1>2. t[k].type = type /\ t[k].id = id
  BY <1>1 DEF Event
<1> QED  BY <1>2 DEF Listing

\* What was read since the request came makes a true timeline.
LEMMA TimelineTrue ==
  ASSUME OrdersType, NEW read, NEW before,
         \A n \in Tables : ReadOK(n, read[n]) /\ Since(n, before[n], read[n])
  PROVE  HasAll(before, Timeline(read)) /\ InOrder(Timeline(read))
<1> DEFINE t == Timeline(read)
<1>1. /\ t \in Seq(Events) /\ Has(t, Event("order.created", 0, 1))
      /\ \A m, n \in 1..Len(t) : m < n => t[m].at >= t[n].at
      /\ \A f \in Existing(read["fulfillment"]) :
           /\ Has(t, Event("fulfillment.created", f, read["fulfillment"][f].created))
           /\ read["fulfillment"][f].tracked
                => Has(t, Event("fulfillment.shipped", f, read["fulfillment"][f].updated))
      /\ \A x \in Existing(read["refund"]) : Has(t, Event("refund.created", x, read["refund"][x].created))
      /\ \A x \in Existing(read["return"]) : Has(t, Event("return.created", x, read["return"][x].created))
  BY TimelineOf
<1> HIDE DEF t
<1>2. /\ Existing(before["fulfillment"]) \subseteq Existing(read["fulfillment"])
      /\ \A f \in Existing(before["fulfillment"]) :
           before["fulfillment"][f].tracked => read["fulfillment"][f].tracked
      /\ Existing(before["refund"]) \subseteq Existing(read["refund"])
      /\ Existing(before["return"]) \subseteq Existing(read["return"])
  BY DEF Tables, Since
<1>3. Listing(t, "order.created", 0)
  BY <1>1, HasLists
<1>4. \A f \in Existing(before["fulfillment"]) :
         /\ Listing(t, "fulfillment.created", f)
         /\ before["fulfillment"][f].tracked => Listing(t, "fulfillment.shipped", f)
  BY <1>1, <1>2, HasLists
<1>5. /\ \A x \in Existing(before["refund"]) : Listing(t, "refund.created", x)
      /\ \A x \in Existing(before["return"]) : Listing(t, "return.created", x)
  BY <1>1, <1>2, HasLists
<1>6. HasAll(before, t)
  BY <1>3, <1>4, <1>5 DEF HasAll
<1>7. t[Len(t)].at = order.created
  <2>1. PICK k \in 1..Len(t) : t[k] = Event("order.created", 0, 1)
    BY <1>1 DEF Has
  <2>2. t[k].at = 1
    BY <2>1 DEF Event
  <2>3. Len(t) \in Nat /\ Len(t) \in 1..Len(t) /\ t[Len(t)] \in Events
    BY <1>1
  <2>4. t[Len(t)].at \in Nat \ {0}
    BY <2>3 DEF Events
  <2>5. k < Len(t) \/ k = Len(t)
    BY <2>3
  <2>6. t[k].at >= t[Len(t)].at \/ k = Len(t)
    BY <1>1, <2>3, <2>5
  <2>7. order.created = 1
    BY DEF OrdersType
  <2> QED  BY <2>2, <2>4, <2>6, <2>7
<1> QED  BY <1>1, <1>6, <1>7 DEF InOrder, t

LEMMA ReadersStep ==
  ASSUME OrdersInv, NEW q \in Readers,
         AskTimeline(q) \/ AnswerTimeline(q) \/ \E table \in Tables : ReadTable(q, table)
  PROVE  OrdersInv'
<1>1. OrdersType /\ timeline = [p \in Readers |-> timeline[p]] /\ Reading(q)
  BY DEF OrdersInv
<1>2. UNCHANGED <<order, fulfillments, returns, refunds, time, writes>>
  BY DEF AskTimeline, AnswerTimeline, ReadTable
<1>3. OrdersType' /\ Snapshot' = Snapshot
  BY <1>1, <1>2 DEF OrdersType, Snapshot
<1>4. timeline' = [p \in Readers |-> timeline'[p]] /\ \A p \in Readers \ {q} : timeline'[p] = timeline[p]
  BY <1>1 DEF AskTimeline, AnswerTimeline, ReadTable
<1>5. ASSUME NEW p \in Readers \ {q} PROVE Reading(p)' /\ Answered(p)'
  <2>1. Reading(p) /\ Answered(p) /\ timeline'[p] = timeline[p]
    BY <1>4 DEF OrdersInv
  <2>2. Answered(p)'
    BY <1>2, <2>1 DEF Answered, HasAll, InOrder, Listing, Existing
  <2> QED  BY <1>3, <2>1, <2>2 DEF Reading
<1>6. CASE AskTimeline(q)
  <2>1. timeline'[q] = [pc |-> "reading", read |-> <<>>, before |-> Snapshot]
    BY <1>1, <1>6 DEF AskTimeline
  <2>2. /\ timeline'[q].pc = "reading" /\ timeline'[q].read = <<>> /\ timeline'[q].before = Snapshot
        /\ DOMAIN timeline'[q] = {"pc", "read", "before"} /\ DOMAIN timeline'[q].read = {}
    BY <2>1
  <2>3. \A n \in Tables : Since(n, Snapshot[n], Snapshot[n])
    BY SinceSame
  <2>4. Reading(q)'
    BY <1>3, <2>2, <2>3 DEF Reading
  <2>5. Answered(q)'
    BY <2>2 DEF Answered
  <2> QED  BY <1>3, <1>4, <1>5, <2>4, <2>5 DEF OrdersInv
<1>7. ASSUME NEW table \in Tables, ReadTable(q, table) PROVE OrdersInv'
  <2>1. PICK old : old = timeline[q]
    OBVIOUS
  <2>2. /\ DOMAIN old = {"pc", "read", "before"} /\ old.pc = "reading" /\ DOMAIN old.read \subseteq Tables
        /\ \A n \in Tables : Since(n, old.before[n], Snapshot[n])
        /\ \A n \in DOMAIN old.read : ReadOK(n, old.read[n]) /\ Since(n, old.before[n], old.read[n])
    BY <1>1, <1>7, <2>1 DEF Reading, ReadTable
  <2> DEFINE more == [x \in DOMAIN old.read \cup {table} |-> IF x = table THEN Snapshot[table] ELSE old.read[x]]
  <2>3. timeline'[q] = [old EXCEPT !.read = more]
    BY <1>1, <1>7, <2>1 DEF ReadTable
  <2>4. /\ DOMAIN more = DOMAIN old.read \cup {table}
        /\ \A n \in DOMAIN old.read \cup {table} : more[n] = IF n = table THEN Snapshot[table] ELSE old.read[n]
    OBVIOUS
  <2> HIDE DEF more
  <2>5. /\ timeline'[q].pc = "reading" /\ timeline'[q].read = more /\ timeline'[q].before = old.before
        /\ DOMAIN timeline'[q] = {"pc", "read", "before"}
    BY <2>2, <2>3
  <2>6. ReadOK(table, Snapshot[table])
    BY <1>1, SnapshotOK
  <2>7. \A n \in DOMAIN more : ReadOK(n, more[n]) /\ Since(n, old.before[n], more[n])
    BY <2>2, <2>4, <2>6
  <2>8. Reading(q)'
    BY <1>3, <2>2, <2>4, <2>5, <2>7 DEF Reading
  <2>9. Answered(q)'
    BY <2>5 DEF Answered
  <2> QED  BY <1>3, <1>4, <1>5, <2>8, <2>9 DEF OrdersInv
<1>8. CASE AnswerTimeline(q)
  <2>1. timeline'[q] = [pc |-> "answered", events |-> Timeline(timeline[q].read), before |-> timeline[q].before]
    BY <1>1, <1>8 DEF AnswerTimeline
  <2>2. /\ timeline'[q].pc = "answered" /\ timeline'[q].events = Timeline(timeline[q].read)
        /\ timeline'[q].before = timeline[q].before
    BY <2>1
  <2>3. \A n \in Tables : ReadOK(n, timeline[q].read[n]) /\ Since(n, timeline[q].before[n], timeline[q].read[n])
    BY <1>1, <1>8 DEF AnswerTimeline, Reading
  <2>4. PICK read, before : read = timeline[q].read /\ before = timeline[q].before
    OBVIOUS
  <2>5. HasAll(before, Timeline(read)) /\ InOrder(Timeline(read))
    BY <1>1, <2>3, <2>4, TimelineTrue
  <2>6. PICK events : events = Timeline(read)
    OBVIOUS
  <2>7. timeline'[q].events = events /\ timeline'[q].before = before
    BY <2>2, <2>4, <2>6
  <2>8. HasAll(before, events) /\ InOrder(events)'
    BY <1>2, <2>5, <2>6 DEF InOrder
  <2>9. Answered(q)'
    BY <2>7, <2>8 DEF Answered, HasAll, InOrder, Listing, Existing
  <2>10. Reading(q)'
    BY <2>2 DEF Reading
  <2> QED  BY <1>3, <1>4, <1>5, <2>9, <2>10 DEF OrdersInv
<1> QED  BY <1>6, <1>7, <1>8

LEMMA OrdersStep == ASSUME OrdersInv, OrdersNext \/ UNCHANGED orderVars PROVE OrdersInv'
<1>1. CASE UNCHANGED orderVars
  BY <1>1 DEF orderVars, OrdersInv, OrdersType, Reading, Answered, Snapshot, InOrder
<1>2. ASSUME NEW q \in Readers, AskTimeline(q) \/ AnswerTimeline(q) \/ \E table \in Tables : ReadTable(q, table)
      PROVE  OrdersInv'
  BY <1>2, ReadersStep
<1>3. ASSUME NEW now \in {time, time + 1}, writes < MaxWrites,
             CreateFulfillment(now) \/ UpdateTracking(now) \/ HandleRefund(now) \/ ManageReturn(now)
               \/ CreateCustomerReturn(now)
      PROVE  OrdersInv'
  BY <1>3, FulfillmentWrites, RefundWrites, ReturnWrites
<1> QED  BY <1>1, <1>2, <1>3 DEF OrdersNext

LEMMA TimelinesTrue == OrdersInv => TimelineIsTrue
BY DEF OrdersInv, Answered, TimelineIsTrue
-----------------------------------------------------------------------------
(* Sales channels                                                          *)

ChannelsInv ==
  /\ channel \in [Channels -> Channel \cup {NoChannel}] /\ channelCall \in [ChannelCalls -> ChannelCall]
  /\ \A r \in ChannelCalls :
       channelCall[r].pc \in {"update", "reread", "delete"} => channel[channelCall[r].channel] # NoChannel
  /\ asked = [c \in Channels |-> [name |-> channel[c].name, state |-> channel[c].state]]

LEMMA ChannelShape ==
  ASSUME NEW q \in ChannelCall
  PROVE  /\ q.pc \in {"update", "reread", "delete"} => q.channel \in Channels
         /\ q.pc = "update" => q.fields \in SUBSET Fields
BY DEF ChannelCall

\* A channel is told from none.
LEMMA ChannelIs == NoChannel \notin Channel
BY NullAssumption DEF NoChannel, Channel

\* A request writes a row, or none, and goes on with a row that exists.
LEMMA ChannelStep ==
  ASSUME ChannelsInv, NEW r \in ChannelCalls, NEW q \in ChannelCall, PutChannelCall(r, q),
         channel' \in [Channels -> Channel \cup {NoChannel}],
         \A c \in Channels : channel[c] # NoChannel => channel'[c] # NoChannel,
         q.pc \in {"update", "reread", "delete"} => channel'[q.channel] # NoChannel,
         asked' = [c \in Channels |-> [name |-> channel'[c].name, state |-> channel'[c].state]]
  PROVE  ChannelsInv'
<1>1. channelCall' \in [ChannelCalls -> ChannelCall] /\ channelCall'[r] = q
      /\ \A p \in ChannelCalls \ {r} : channelCall'[p] = channelCall[p]
  BY DEF ChannelsInv, PutChannelCall
<1>2. ASSUME NEW p \in ChannelCalls, channelCall'[p].pc \in {"update", "reread", "delete"}
      PROVE  channel'[channelCall'[p].channel] # NoChannel
  <2>1. CASE p = r
    BY <1>1, <1>2, <2>1
  <2>2. CASE p # r
    <3>1. channelCall[p] \in ChannelCall /\ channelCall'[p] = channelCall[p]
      BY <1>1, <2>2 DEF ChannelsInv
    <3> QED  BY <1>2, <3>1, ChannelShape DEF ChannelsInv
  <2> QED  BY <2>1, <2>2
<1> QED  BY <1>1, <1>2 DEF ChannelsInv

\* What is asked for and what is written, field by field.
LEMMA AskedWritten ==
  ASSUME NEW c \in Channels, NEW row, NEW a,
         asked = [x \in Channels |-> [name |-> channel[x].name, state |-> channel[x].state]],
         channel \in [Channels -> Channel \cup {NoChannel}],
         channel' = [channel EXCEPT ![c] = row], asked' = [asked EXCEPT ![c] = a],
         a = [name |-> row.name, state |-> row.state]
  PROVE  asked' = [x \in Channels |-> [name |-> channel'[x].name, state |-> channel'[x].state]]
OBVIOUS

LEMMA ChannelsStep == ASSUME ChannelsInv, ChannelsNext \/ UNCHANGED channelVars PROVE ChannelsInv'
<1>1. CASE UNCHANGED channelVars
  BY <1>1 DEF channelVars, ChannelsInv
<1>2. /\ channel \in [Channels -> Channel \cup {NoChannel}] /\ channelCall \in [ChannelCalls -> ChannelCall]
      /\ asked = [c \in Channels |-> [name |-> channel[c].name, state |-> channel[c].state]]
  BY DEF ChannelsInv
<1>3. ASSUME NEW r \in ChannelCalls, NEW q \in ChannelCall, PutChannelCall(r, q), UNCHANGED <<channel, asked>>,
             q.pc \in {"update", "reread", "delete"} => channel[q.channel] # NoChannel
      PROVE  ChannelsInv'
  BY <1>2, <1>3, ChannelStep
<1>4. ASSUME NEW pc \in {"answered", "refused", "crashed"}
      PROVE  [pc |-> pc] \in ChannelCall /\ [pc |-> pc].pc = pc
  BY DEF ChannelCall
<1>5. ASSUME NEW pc \in {"reread", "delete"}, NEW c \in Channels
      PROVE  [pc |-> pc, channel |-> c] \in ChannelCall
  BY DEF ChannelCall
<1>6. ASSUME NEW r \in ChannelCalls, CreateChannel(r) PROVE ChannelsInv'
  <2>1. PICK c \in Channels :
          /\ channel[c] = NoChannel
          /\ channel' = [channel EXCEPT ![c] = [name |-> r, state |-> r, deleted |-> FALSE]]
          /\ asked' = [asked EXCEPT ![c] = [name |-> r, state |-> r]]
          /\ PutChannelCall(r, [pc |-> "reread", channel |-> c])
    BY <1>6 DEF CreateChannel
  <2> DEFINE row == [name |-> r, state |-> r, deleted |-> FALSE]
             a == [name |-> r, state |-> r]
             q == [pc |-> "reread", channel |-> c]
  <2>r. row.name = r /\ row.state = r
    OBVIOUS
  <2>c. row \in Channel
    BY DEF Channel
  <2>3. a = [name |-> row.name, state |-> row.state] /\ q \in ChannelCall /\ q.channel = c
    BY <1>5
  <2>4. channel' = [channel EXCEPT ![c] = row] /\ asked' = [asked EXCEPT ![c] = a] /\ PutChannelCall(r, q)
    BY <2>1
  <2> HIDE DEF row, a, q
  <2>2. row \in Channel /\ row # NoChannel /\ row.name = r /\ row.state = r
    BY <2>r, <2>c, ChannelIs
  <2>5. asked' = [x \in Channels |-> [name |-> channel'[x].name, state |-> channel'[x].state]]
    BY <1>2, <2>3, <2>4, AskedWritten
  <2>6. channel' \in [Channels -> Channel \cup {NoChannel}] /\ channel'[c] # NoChannel
        /\ \A x \in Channels : channel[x] # NoChannel => channel'[x] # NoChannel
    BY <1>2, <2>2, <2>4
  <2> QED  BY <2>3, <2>4, <2>5, <2>6, ChannelStep
<1>7. ASSUME NEW r \in ChannelCalls, FindChannel(r) PROVE ChannelsInv'
  <2>1. UNCHANGED <<channel, asked>>
    BY <1>7 DEF FindChannel
  <2>2. PICK c \in Channels, fields \in SUBSET Fields, delete \in BOOLEAN :
          PutChannelCall(r, IF GetTenantChannel(c) = NoChannel \/ (fields = {} /\ ~delete) THEN [pc |-> "refused"]
                            ELSE IF delete THEN [pc |-> "delete", channel |-> c]
                            ELSE [pc |-> "update", channel |-> c, fields |-> fields, seen |-> channel[c]])
    BY <1>7 DEF FindChannel
  <2>3. CASE GetTenantChannel(c) = NoChannel \/ (fields = {} /\ ~delete)
    BY <1>3, <1>4, <2>1, <2>2, <2>3
  <2>4. CASE ~(GetTenantChannel(c) = NoChannel \/ (fields = {} /\ ~delete))
    <3>1. channel[c] # NoChannel /\ channel[c] \in Channel
      BY <1>2, <2>4 DEF GetTenantChannel, Listed
    <3>2. CASE delete
      <4> DEFINE q == [pc |-> "delete", channel |-> c]
      <4>1. PutChannelCall(r, q) /\ q \in ChannelCall /\ q.channel = c
        BY <1>5, <2>2, <2>4, <3>2
      <4> HIDE DEF q
      <4> QED  BY <1>3, <2>1, <3>1, <4>1
    <3>3. CASE ~delete
      <4> DEFINE q == [pc |-> "update", channel |-> c, fields |-> fields, seen |-> channel[c]]
      <4>1. PutChannelCall(r, q) /\ q.channel = c
        BY <2>2, <2>4, <3>3
      <4>2. q \in ChannelCall
        BY <3>1 DEF ChannelCall
      <4> HIDE DEF q
      <4> QED  BY <1>3, <2>1, <3>1, <4>1, <4>2
    <3> QED  BY <3>2, <3>3
  <2> QED  BY <2>3, <2>4
<1>8. ASSUME NEW r \in ChannelCalls, UpdateChannel(r) PROVE ChannelsInv'
  <2>1. PICK q : q = channelCall[r]
    OBVIOUS
  <2>2. q \in ChannelCall /\ q.pc = "update" /\ q.channel \in Channels /\ q.fields \in SUBSET Fields
        /\ channel[q.channel] # NoChannel
    BY <1>2, <1>8, <2>1, ChannelShape DEF UpdateChannel, ChannelsInv
  <2>3. PICK c \in Channels : c = q.channel
    BY <2>2
  <2>4. PICK old \in Channel : old = channel[c]
    BY <1>2, <2>2, <2>3
  <2> DEFINE row == [old EXCEPT !.name = IF "name" \in q.fields THEN r ELSE old.name,
                                !.state = IF "state" \in q.fields THEN r ELSE old.state]
             a == [x \in Fields |-> IF x \in q.fields THEN r ELSE asked[c][x]]
             n == [pc |-> "reread", channel |-> c]
  <2>5. channel' = [channel EXCEPT ![c] = row] /\ asked' = [asked EXCEPT ![c] = a] /\ PutChannelCall(r, n)
    <3>1. Changed(r, q) = row
      BY <2>3, <2>4 DEF Changed
    <3>2. channel' = [channel EXCEPT ![c] = Changed(r, q)] /\ PutChannelCall(r, n)
      BY <1>8, <2>1, <2>3 DEF UpdateChannel
    <3>3. asked' = [asked EXCEPT ![c] = a]
      BY <1>8, <2>1, <2>3 DEF UpdateChannel
    <3> HIDE DEF row, a, n
    <3> QED  BY <3>1, <3>2, <3>3
  <2>6. row \in Channel /\ row.name = (IF "name" \in q.fields THEN r ELSE old.name)
        /\ row.state = (IF "state" \in q.fields THEN r ELSE old.state)
    BY DEF Channel
  <2>7. a = [name |-> row.name, state |-> row.state]
    <3>1. asked[c] = [name |-> old.name, state |-> old.state]
      BY <1>2, <2>4
    <3>2. asked[c]["name"] = old.name /\ asked[c]["state"] = old.state
      BY <3>1
    <3>3. a["name"] = row.name /\ a["state"] = row.state /\ DOMAIN a = {"name", "state"}
      BY <2>6, <3>2 DEF Fields
    <3>4. a = [x \in {"name", "state"} |-> a[x]]
      BY DEF Fields
    <3> HIDE DEF a, row
    <3> QED  BY <3>3, <3>4
  <2>8. n \in ChannelCall /\ n.channel = c
    BY <1>5
  <2> HIDE DEF row, a, n
  <2>9. asked' = [x \in Channels |-> [name |-> channel'[x].name, state |-> channel'[x].state]]
    BY <1>2, <2>5, <2>7, AskedWritten
  <2>10. row # NoChannel
    BY <2>6, ChannelIs
  <2>11. channel' \in [Channels -> Channel \cup {NoChannel}] /\ channel'[c] # NoChannel
        /\ \A x \in Channels : channel[x] # NoChannel => channel'[x] # NoChannel
    BY <1>2, <2>5, <2>6, <2>10
  <2> QED  BY <2>5, <2>8, <2>9, <2>11, ChannelStep
<1>9. ASSUME NEW r \in ChannelCalls, RereadChannel(r) PROVE ChannelsInv'
  <2>1. PICK pc \in {"answered", "crashed"} : PutChannelCall(r, [pc |-> pc])
    BY <1>9 DEF RereadChannel
  <2> QED  BY <1>3, <1>4, <1>9, <2>1 DEF RereadChannel
<1>10. ASSUME NEW r \in ChannelCalls, DeleteChannel(r) PROVE ChannelsInv'
  <2>1. channelCall[r].channel \in Channels /\ channel[channelCall[r].channel] # NoChannel
    BY <1>2, <1>10, ChannelShape DEF DeleteChannel, ChannelsInv
  <2>2. PICK c \in Channels : c = channelCall[r].channel
    BY <2>1
  <2>3. PICK old \in Channel : old = channel[c]
    BY <1>2, <2>1, <2>2
  <2> DEFINE row == [old EXCEPT !.deleted = TRUE]
  <2>4. row \in Channel /\ row.name = old.name /\ row.state = old.state
    BY DEF Channel
  <2>5. channel' = [channel EXCEPT ![c] = row] /\ UNCHANGED asked /\ PutChannelCall(r, [pc |-> "answered"])
    BY <1>10, <2>2, <2>3 DEF DeleteChannel
  <2> HIDE DEF row
  <2>6. /\ channel' \in [Channels -> Channel \cup {NoChannel}]
        /\ \A x \in Channels : /\ channel[x] # NoChannel => channel'[x] # NoChannel
                               /\ channel'[x].name = channel[x].name /\ channel'[x].state = channel[x].state
    BY <1>2, <2>3, <2>4, <2>5, ChannelIs
  <2>7. asked' = [x \in Channels |-> [name |-> channel'[x].name, state |-> channel'[x].state]]
    BY <1>2, <2>5, <2>6
  <2> QED  BY <1>4, <2>5, <2>6, <2>7, ChannelStep
<1> QED  BY <1>1, <1>6, <1>7, <1>8, <1>9, <1>10 DEF ChannelsNext
-----------------------------------------------------------------------------
(* Stock levels                                                            *)

StockInv ==
  /\ stock \in [Items -> SyncCalls \cup {None}] /\ sync \in [SyncCalls -> Sync]
  /\ \A i \in Items, r \in SyncCalls :
       stock[i] = r => \/ sync[r].pc = "answered"
                       \/ sync[r].pc = "update" /\ i \in sync[r].creates

LEMMA SyncShape ==
  ASSUME NEW q \in Sync
  PROVE  /\ q.levels \in SUBSET Items
         /\ q.pc \in {"create", "update"} =>
              q \in [pc : {"create", "update"}, levels : SUBSET Items, creates : SUBSET Items]
BY DEF Sync

\* What a sync has left is there while it may still be undone, and for good
\* when it has answered.
LEMMA StockStep == ASSUME StockInv, StockNext \/ UNCHANGED stockVars PROVE StockInv'
<1>1. CASE UNCHANGED stockVars
  BY <1>1 DEF stockVars, StockInv
<1>2. ASSUME NEW r \in SyncCalls, SplitLevels(r) \/ CreateLevels(r) \/ UpdateLevels(r) PROVE StockInv'
  <2>1. /\ stock \in [Items -> SyncCalls \cup {None}] /\ sync \in [SyncCalls -> Sync] /\ sync[r] \in Sync
        /\ None \notin SyncCalls
    BY NullAssumption DEF StockInv
  <2>2. ASSUME NEW q \in Sync, PutSync(r, q), stock' \in [Items -> SyncCalls \cup {None}],
               \A i \in Items : stock'[i] \in {r, None, stock[i]},
               \A i \in Items : stock'[i] = r => q.pc = "answered" \/ (q.pc = "update" /\ i \in q.creates)
        PROVE  StockInv'
    <3>1. sync' \in [SyncCalls -> Sync] /\ sync'[r] = q /\ \A p \in SyncCalls \ {r} : sync'[p] = sync[p]
      BY <2>1, <2>2 DEF PutSync
    <3>2. ASSUME NEW i \in Items, NEW p \in SyncCalls, stock'[i] = p
          PROVE  sync'[p].pc = "answered" \/ (sync'[p].pc = "update" /\ i \in sync'[p].creates)
      BY <2>1, <2>2, <3>1, <3>2 DEF StockInv
    <3> QED  BY <2>2, <3>1, <3>2 DEF StockInv
  <2>3. CASE SplitLevels(r)
    <3>1. PICK levels \in Levels :
            PutSync(r, [pc |-> "create", levels |-> levels, creates |-> {i \in levels : stock[i] = None}])
      BY <2>3 DEF SplitLevels
    <3> DEFINE q == [pc |-> "create", levels |-> levels, creates |-> {i \in levels : stock[i] = None}]
    <3>2. q \in Sync
      BY DEF Sync, Levels
    <3>3. PutSync(r, q) /\ UNCHANGED stock /\ sync[r].pc = "new"
      BY <2>3, <3>1 DEF SplitLevels
    <3> HIDE DEF q
    <3>4. \A i \in Items : stock'[i] # r
      BY <3>3 DEF StockInv
    <3> QED  BY <2>1, <2>2, <3>2, <3>3, <3>4
  <2>4. ASSUME NEW pc \in {"answered", "failed"}
        PROVE  [pc |-> pc, levels |-> sync[r].levels] \in Sync
    BY <2>1, SyncShape DEF Sync
  <2>5. CASE CreateLevels(r)
    <3>1. PICK old \in [pc : {"create", "update"}, levels : SUBSET Items, creates : SUBSET Items] : old = sync[r]
      BY <2>1, <2>5, SyncShape DEF CreateLevels
    <3>2. old.pc = "create" /\ \A i \in Items : stock[i] # r
      BY <2>5, <3>1 DEF CreateLevels, StockInv
    <3>3. CASE \A i \in sync[r].creates : stock[i] = None
      <4> DEFINE q == [old EXCEPT !.pc = "update"]
      <4>1. q \in [pc : {"create", "update"}, levels : SUBSET Items, creates : SUBSET Items]
            /\ q.pc = "update" /\ q.creates = old.creates
        OBVIOUS
      <4>2. PutSync(r, q) /\ stock' = [i \in Items |-> IF i \in old.creates THEN r ELSE stock[i]]
        BY <2>5, <3>1, <3>3 DEF CreateLevels, Write
      <4> HIDE DEF q
      <4>3. q \in Sync
        BY <4>1 DEF Sync
      <4> QED  BY <2>1, <2>2, <3>2, <4>1, <4>2, <4>3
    <3>4. CASE ~\A i \in sync[r].creates : stock[i] = None
      <4>1. PutSync(r, [pc |-> "failed", levels |-> sync[r].levels]) /\ UNCHANGED stock
        BY <2>5, <3>4 DEF CreateLevels, SyncDone
      <4> QED  BY <2>1, <2>2, <2>4, <3>2, <4>1
    <3> QED  BY <3>3, <3>4
  <2>6. CASE UpdateLevels(r)
    <3>1. sync[r].pc = "update"
      BY <2>6 DEF UpdateLevels
    <3> DEFINE updates == sync[r].levels \ sync[r].creates
    <3>2. CASE Write(r, updates) /\ SyncDone(r, "answered")
      <4> DEFINE q == [pc |-> "answered", levels |-> sync[r].levels]
      <4>1. q \in Sync /\ q.pc = "answered" /\ PutSync(r, q)
        BY <2>4, <3>2 DEF SyncDone
      <4>2. stock' = [i \in Items |-> IF i \in updates THEN r ELSE stock[i]]
        BY <3>2 DEF Write
      <4> HIDE DEF q, updates
      <4> QED  BY <2>1, <2>2, <4>1, <4>2
    <3>3. CASE SyncDone(r, "failed") /\ stock' = [i \in Items |-> IF i \in Undone(r) THEN None ELSE stock[i]]
      <4> DEFINE q == [pc |-> "failed", levels |-> sync[r].levels]
      <4>1. q \in Sync /\ PutSync(r, q)
        BY <2>4, <3>3 DEF SyncDone
      <4>2. \A i \in Items : stock'[i] \in {None, stock[i]} /\ stock'[i] # r
        BY <2>1, <3>1, <3>3 DEF Undone, StockInv
      <4>3. stock' \in [Items -> SyncCalls \cup {None}]
        BY <2>1, <3>3
      <4> HIDE DEF q
      <4> QED  BY <2>2, <4>1, <4>2, <4>3
    <3> QED  BY <2>6, <3>2, <3>3 DEF UpdateLevels
  <2> QED  BY <1>2, <2>3, <2>5, <2>6
<1> QED  BY <1>1, <1>2 DEF StockNext
-----------------------------------------------------------------------------
IInv == ThemesInv /\ OrdersInv /\ ChannelsInv /\ StockInv

LEMMA InitInv == Init => IInv
<1> SUFFICES ASSUME Init PROVE IInv
  OBVIOUS
<1>1. ThemesInv /\ OrdersInv
  BY ThemesInitInv, OrdersInitInv DEF Init
<1>2. ChannelsInv
  <2>1. [pc |-> "new"] \in ChannelCall
    BY DEF ChannelCall
  <2>2. NoChannel.name = None /\ NoChannel.state = None
    BY DEF NoChannel
  <2> QED  BY <2>1, <2>2 DEF Init, ChannelsInv
<1>3. StockInv
  <2>1. [pc |-> "new", levels |-> {}] \in Sync
    BY DEF Sync
  <2> QED  BY <2>1, NullAssumption DEF Init, StockInv
<1> QED  BY <1>1, <1>2, <1>3 DEF IInv

LEMMA NextInv == IInv /\ [Next]_vars => IInv'
<1> SUFFICES ASSUME IInv, [Next]_vars PROVE IInv'
  OBVIOUS
<1>1. /\ ThemesNext \/ UNCHANGED themeVars
      /\ OrdersNext \/ UNCHANGED orderVars
      /\ ChannelsNext \/ UNCHANGED channelVars
      /\ StockNext \/ UNCHANGED stockVars
  BY DEF Next, vars
<1> QED  BY <1>1, ThemesStep, OrdersStep, ChannelsStep, StockStep DEF IInv

\* Rows, requests and settings are always what the code builds.
THEOREM TypeCorrect == Spec => []TypeOK
<1>1. IInv => TypeOK
  BY DEF IInv, ThemesInv, ThemesType, OrdersInv, OrdersType, FulfillmentsOK, RefundsOK, ReturnsOK,
         ChannelsInv, StockInv, TypeOK
<1> QED  BY <1>1, InitInv, NextInv, PTL DEF Spec

\* From the first theme on the storefront shows one, with its settings, and
\* two themes are active only when their uploads overlapped - however many
\* uploads there are and wherever they are cut short (theme/service.ts).
THEOREM StorefrontShows == Spec => []OneThemeShown
<1>1. IInv => OneThemeShown
  BY OneShown DEF IInv
<1> QED  BY <1>1, InitInv, NextInv, PTL DEF Spec

\* Whatever is written to an order while its timeline is read, the timeline
\* has all that was there when it was asked for, the newest first, and ends
\* with the order's creation.
THEOREM TimelinesAreTrue == Spec => []TimelineIsTrue
<1>1. IInv => TimelineIsTrue
  BY TimelinesTrue DEF IInv
<1> QED  BY <1>1, InitInv, NextInv, PTL DEF Spec

\* Edits of different fields of a channel both survive, and a sync that has
\* failed leaves none of its quantities behind.
THEOREM RowsKept == Spec => []RowsAsAnswered
<1>1. IInv => RowsAsAnswered
  <2> SUFFICES ASSUME IInv PROVE RowsAsAnswered
    OBVIOUS
  <2>1. \A c \in Channels : asked[c] = [name |-> channel[c].name, state |-> channel[c].state]
    BY DEF IInv, ChannelsInv
  <2>2. \A i \in Items, r \in SyncCalls : sync[r].pc = "failed" => stock[i] # r
    BY DEF IInv, StockInv
  <2> QED  BY <2>1, <2>2 DEF RowsAsAnswered
<1> QED  BY <1>1, InitInv, NextInv, PTL DEF Spec

\* An edit of the active theme changes what the storefront shows, unless an
\* upload is committed while it runs or more than one theme is active.
THEOREM EditsAreShown == Spec => EditIsShown
<1> DEFINE A == \A r \in ThemeCalls :
                  LET q == themeCall[r] IN
                  q.pc = "edit" /\ q.default /\ themeCall'[r].pc = "done"
                    => q.moved \/ Cardinality(Active) > 1 \/ StorefrontConfig'.config = r
<1>1. IInv /\ [Next]_vars => [A]_vars
  <2> SUFFICES ASSUME IInv, Next PROVE A
    OBVIOUS
  <2>1. ThemesInv /\ (ThemesNext \/ UNCHANGED themeVars)
    BY DEF IInv, Next
  <2> QED  BY <2>1, EditShown
<1> QED  BY <1>1, InitInv, NextInv, PTL DEF Spec, EditIsShown
=============================================================================
