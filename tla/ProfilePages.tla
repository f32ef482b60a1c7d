----------------------------- MODULE ProfilePages -----------------------------
(***************************************************************************)
(* The two pages where a user edits what is known of him: the header of    *)
(* his profile, with a switch between reading and editing, and the first   *)
(* tab of the settings, where the fields are always open.  Both keep a     *)
(* form beside the user of the session store, and upload a picture into    *)
(* the form before it is saved.                                            *)
(*                                                                         *)
(* The form is not the user: the profile shows his city by the name it is  *)
(* listed under, and what is sent of the texts is what sanitizeInput       *)
(* leaves of them, so a save may change fields nobody entered.             *)
(*                                                                         *)
(* The row of the user has other writers: each review of his sales counts  *)
(* itself in it.  All of them read the row, and write every column of what *)
(* they read; none looks whether it is still so.                           *)
(***************************************************************************)
EXTENDS Page, FiniteSets

CONSTANTS
  Texts, Pictures,
  RefusedTexts,      \* those the validator does not let through
  CityOptions,       \* the cities to choose from
  Sanitized,         \* what sanitizeInput, and Trim at the server, leave of a text
  NormalCity,        \* normalizeCityValue
  StoredProfiles,    \* what a user may have registered with
  CompletedOrders    \* sales of the user, by their orders

ProfileFields == {"name", "phone", "city", "avatar"}

\* Null is a blank text, or no picture.
Values(f) == IF f = "avatar" THEN Pictures \cup {Null} ELSE Texts \cup {Null}

Profiles ==
  {p \in [ProfileFields -> Texts \cup Pictures \cup {Null}] :
     \A f \in ProfileFields : p[f] \in Values(f)}

ASSUME ProfileAssumption ==
  /\ CityOptions \subseteq Texts
  /\ Sanitized \in [Texts \cup {Null} -> Texts \cup {Null}] /\ Sanitized[Null] = Null
  /\ NormalCity \in [Texts \cup {Null} -> Texts \cup {Null}] /\ NormalCity[Null] = Null
  /\ StoredProfiles \subseteq Profiles
  /\ CompletedOrders # {}

\* What the row knows of a user; his reviews, by order; reviews being written.
\* The average rating goes with the number of reviews it is computed from.
UserRow == [profile : Profiles, reviewCount : Nat]
ProfileServer ==
  [row : UserRow, reviews : SUBSET CompletedOrders,
   writing : Seq([what : {"create", "update", "delete"}, order : CompletedOrders,
                  copy : UserRow])]

ProfileUI ==
  [at : {"profile", "personal"},
   loading : BOOLEAN,
   editing : BOOLEAN,             \* isEditing; the settings are always open
   form : Profiles,               \* formData, profileForm
   user : Profiles,               \* of the session store
   refused : SUBSET ProfileFields,    \* profileErrors, formErrors
   saving : BOOLEAN, uploading : BOOLEAN]

ProfileRequests ==
  [op : {"me"}, phase : {"sent", "done"}, user : Profiles]
    \cup
  [op : {"save"}, phase : {"sent", "read", "done"}, form : Profiles, sent : Profiles,
   user : Profiles, copy : UserRow]
    \cup
  [op : {"upload"}, phase : {"sent", "done"}, avatar : Pictures]

\* blind: the profile was never read; lost: a change was saved and its answer
\* lost; late: a picture arrived when the form was closed; unsent: the form was
\* changed while it was saved; kept: a name or phone number could not be taken
\* away; rewritten: a text was not saved as it was entered, or a city is not shown
\* as it was saved; miscounted, reverted: a count, or a profile, was written back
\* that had changed since it was read; given: what the user entered, and where.
ProfilePast ==
  [odd : SUBSET {"blind", "lost", "late", "unsent", "kept", "rewritten", "miscounted",
                 "reverted"},
   given : SUBSET (ProfileFields \X (Texts \cup Pictures \cup {Null}))]

ProfileTypeOK ==
  /\ ui \in ProfileUI
  /\ server \in ProfileServer
  /\ flight \in Seq(ProfileRequests)
  /\ past \in ProfilePast

Blank == [f \in ProfileFields |-> Null]

\* Mutated: the form keeps what the store knew.
FormOfOld(user) == ui.form

\* The form of a user; that of the settings has no city.
PageFields == IF At("personal") THEN ProfileFields \ {"city"} ELSE ProfileFields
FormOf(user) ==
  [f \in ProfileFields |->
     CASE f \notin PageFields -> Null
       [] f = "city" /\ f \in PageFields -> NormalCity[user.city]
       [] OTHER -> user[f]]

\* What is sent of a form.
SentAs(f, v) == IF f = "avatar" THEN v ELSE Sanitized[v]
Outgoing(form) == [f \in ProfileFields |-> SentAs(f, form[f])]

\* One of the sales was reviewed before.
AnyReviewed == CHOOSE o \in CompletedOrders : TRUE

\* The store may know an older profile than the server's; the form of the
\* settings starts empty.
ProfileInit ==
  /\ \E p \in StoredProfiles :
       server = [row |-> [profile |-> p, reviewCount |-> 1],
                 reviews |-> {AnyReviewed}, writing |-> <<>>]
  /\ \E at \in {"profile", "personal"}, old \in {server.row.profile, Blank} :
       ui = [at |-> at, loading |-> TRUE, editing |-> at = "personal",
             form |-> IF at = "profile" THEN [old EXCEPT !.city = NormalCity[@]] ELSE Blank,
             user |-> old, refused |-> {}, saving |-> FALSE, uploading |-> FALSE]
  /\ past = [odd |-> {}, given |-> {}]
  /\ Booted

AtProfile == At("profile") \/ At("personal")

\* Nothing but a spinner while the profile is loaded.
ProfileView == At("profile") /\ ~ui.loading
PersonalView == At("personal") /\ ~ui.loading
ProfileForm == (ProfileView /\ ui.editing) \/ PersonalView

\* The picture in the header is that of the form, open or not; the texts are the
\* user's when the form is closed.
HeaderShows ==
  [f \in ProfileFields |->
     IF \/ f = "avatar" /\ ui.form.avatar # Null
        \/ f # "avatar" /\ ui.editing
       THEN ui.form[f] ELSE ui.user[f]]
-----------------------------------------------------------------------------
LoadUserData ==
  /\ AtProfile /\ ui.loading /\ flight = <<>>
  /\ Send([op |-> "me", phase |-> "sent", user |-> ui.user])
  /\ Untold /\ UNCHANGED <<ui, inputs>>

EditProfile ==
  /\ ProfileView /\ ~ui.editing
  /\ ui' = [ui EXCEPT !.editing = TRUE]
  /\ Untold /\ UNCHANGED <<flight, inputs>>

\* The profile looks at what would be sent, the settings at what is entered.
Objected(v) == IF At("profile") THEN Sanitized[v] \in RefusedTexts ELSE v \in RefusedTexts

HandleProfileFieldChange ==
  /\ ProfileForm
  /\ \E f \in PageFields \ {"avatar"} :
       \E v \in (IF f = "city" THEN CityOptions ELSE Texts) \cup {Null} :
         /\ v # ui.form[f]
         /\ ui' = [ui EXCEPT !.form[f] = v,
                             !.refused = IF Objected(v) THEN @ \cup {f} ELSE @ \ {f}]
         /\ past' = [past EXCEPT !.given = @ \cup {<<f, v>>}]
  /\ Input
  /\ UNCHANGED <<server, flight>>

\* validateProfile: the fields it finds fault with.
ValidateProfile == {f \in ProfileFields \ {"avatar"} : ui.form[f] \in RefusedTexts}

HandleProfileSave ==
  /\ ProfileForm /\ ~ui.saving /\ Input
  /\ ui' = [ui EXCEPT !.refused = ValidateProfile, !.saving = ValidateProfile = {}]
  /\ IF ValidateProfile = {}
       THEN Send([op |-> "save", phase |-> "sent", form |-> ui.form,
                  sent |-> Outgoing(ui.form), user |-> ui.user, copy |-> server.row])
       ELSE UNCHANGED flight
  /\ Untold

\* Mutated: the picture of the form stays.
UserFormKeepsPicture == [FormOf(ui.user) EXCEPT !.avatar = ui.form.avatar]

UserForm == FormOf(ui.user)

\* The user of the store is taken again; an upload goes on.
HandleCancel ==
  /\ ProfileForm /\ ~ui.saving
  /\ ui' = [ui EXCEPT !.form = UserForm, !.editing = At("personal"), !.refused = {}]
  /\ past' = [past EXCEPT !.odd = @ \ {"late", "unsent", "kept", "rewritten"}]
  /\ UNCHANGED <<server, flight, inputs>>

\* The input of the file stays open while a picture is on its way.
HandleAvatarChange ==
  /\ ProfileForm /\ Input
  /\ ui' = [ui EXCEPT !.uploading = TRUE]
  /\ \E a \in Pictures : Send([op |-> "upload", phase |-> "sent", avatar |-> a])
  /\ Untold
-----------------------------------------------------------------------------
GetMe(i) ==
  /\ AtProfile /\ flight[i].op = "me" /\ flight[i].phase = "sent"
  /\ Return(i, [flight[i] EXCEPT !.phase = "done", !.user = server.row.profile])
  /\ UNCHANGED <<ui, server, past, inputs>>

\* UserController: a blank name or phone number changes nothing.  The city and the
\* picture of the profile are taken away by a blank; the settings send no city,
\* and no blank picture.
Updated(old, sent) ==
  [f \in ProfileFields |->
     IF \/ f \notin PageFields
        \/ sent[f] = Null /\ (f \in {"name", "phone"} \/ At("personal"))
       THEN old[f] ELSE sent[f]]

UpdateMeReads(i) ==
  /\ AtProfile /\ flight[i].op = "save" /\ flight[i].phase = "sent"
  /\ Return(i, [flight[i] EXCEPT !.phase = "read", !.copy = server.row])
  /\ UNCHANGED <<ui, server, past, inputs>>

\* What a write of a whole row does not know of.
Overwrites(copy) ==
  past' = [past EXCEPT !.odd = @
             \cup (IF copy.reviewCount # server.row.reviewCount THEN {"miscounted"} ELSE {})
             \cup (IF copy.profile # server.row.profile THEN {"reverted"} ELSE {})]

\* A form that changes nothing is not written.
UpdateMeWrites(i) ==
  LET r == flight[i]
      user == Updated(r.copy.profile, r.sent) IN
  /\ AtProfile /\ r.op = "save" /\ r.phase = "read"
  /\ IF user = r.copy.profile
       THEN Untold
       ELSE /\ server' = [server EXCEPT !.row = [r.copy EXCEPT !.profile = user]]
            /\ Overwrites(r.copy)
  /\ Return(i, [r EXCEPT !.phase = "done", !.user = user])
  /\ UNCHANGED <<ui, inputs>>

\* ReviewsController: what is checked, and the seller, are read before the
\* transaction.
Reviewing(what, order) ==
  /\ inputs < MaxInput /\ inputs' = inputs + 1
  /\ server' = [server EXCEPT !.writing =
                  Append(@, [what |-> what, order |-> order, copy |-> server.row])]
  /\ UNCHANGED <<ui, flight, past>>

CreateReview ==
  /\ AtProfile
  /\ \E o \in CompletedOrders \ server.reviews : Reviewing("create", o)

UpdateReview ==
  /\ AtProfile
  /\ \E o \in server.reviews : Reviewing("update", o)

DeleteReview ==
  /\ AtProfile
  /\ \E o \in server.reviews : Reviewing("delete", o)

\* Mutated: a review that is gone is counted still.
ReviewCountKept(what, count) == IF what = "create" THEN count + 1 ELSE count

\* ApplyReviewCreated, -Updated, -Deleted.
ReviewCount(what, count) ==
  CASE what = "create" -> count + 1
    [] what = "update" -> count
    [] what = "delete" -> IF count <= 1 THEN 0 ELSE count - 1

\* One transaction: the review and the row of its seller.  There is one review
\* of an order; one that is gone cannot be changed.
ReviewWrites ==
  /\ AtProfile
  /\ \E k \in DOMAIN server.writing :
       LET w == server.writing[k] IN
       /\ w.order \in server.reviews <=> w.what # "create"
       /\ server' =
            [row |-> [w.copy EXCEPT !.reviewCount = ReviewCount(w.what, @)],
             reviews |-> CASE w.what = "create" -> server.reviews \cup {w.order}
                           [] w.what = "update" -> server.reviews
                           [] w.what = "delete" -> server.reviews \ {w.order},
             writing |-> RemoveAt(server.writing, k)]
       /\ Overwrites(w.copy)
  /\ UNCHANGED <<ui, flight, inputs>>

\* Refused, broken off or rolled back.
ReviewFails ==
  /\ AtProfile
  /\ \E k \in DOMAIN server.writing :
       server' = [server EXCEPT !.writing = RemoveAt(@, k)]
  /\ UNCHANGED <<ui, flight, past, inputs>>

StorePicture(i) ==
  /\ AtProfile /\ flight[i].op = "upload" /\ flight[i].phase = "sent"
  /\ Return(i, [flight[i] EXCEPT !.phase = "done"])
  /\ UNCHANGED <<ui, server, past, inputs>>
-----------------------------------------------------------------------------
UserDataLoaded(i) ==
  LET r == flight[i] IN
  /\ AtProfile /\ r.op = "me" /\ r.phase = "done"
  /\ ui' = [ui EXCEPT !.loading = FALSE, !.user = r.user, !.form = FormOf(r.user)]
  /\ Land(i)
  /\ Untold /\ UNCHANGED inputs

\* What the store knew is shown.
UserDataFailed(i) ==
  /\ AtProfile /\ flight[i].op = "me"
  /\ ui' = [ui EXCEPT !.loading = FALSE]
  /\ past' = [past EXCEPT !.odd = @ \cup {"blind"}]
  /\ Land(i)
  /\ UNCHANGED <<server, inputs>>

\* The form of the profile is closed as it is.
ProfileSaved(i) ==
  LET r == flight[i]
      changed == ui.form # r.form
      kept == \E f \in {"name", "phone"} : r.sent[f] = Null /\ r.user[f] # Null
      rewritten == r.sent # r.form \/ r.form.city # NormalCity[r.form.city] IN
  /\ AtProfile /\ r.op = "save" /\ r.phase = "done"
  /\ ui' = [ui EXCEPT !.user = r.user, !.editing = At("personal"), !.saving = FALSE]
  /\ past' = [past EXCEPT !.odd = (@ \cap {"miscounted", "reverted"})
                                     \cup (IF changed THEN {"unsent"} ELSE {})
                                     \cup (IF kept THEN {"kept"} ELSE {})
                                     \cup (IF rewritten THEN {"rewritten"} ELSE {})]
  /\ Land(i)
  /\ UNCHANGED <<server, inputs>>

ProfileSaveFailed(i) ==
  LET r == flight[i] IN
  /\ AtProfile /\ r.op = "save"
  /\ ui' = [ui EXCEPT !.saving = FALSE]
  /\ past' = [past EXCEPT !.odd = IF r.phase = "done" THEN @ \cup {"lost"} ELSE @]
  /\ Land(i)
  /\ UNCHANGED <<server, inputs>>

AvatarUploaded(i) ==
  LET r == flight[i] IN
  /\ AtProfile /\ r.op = "upload" /\ r.phase = "done"
  /\ ui' = [ui EXCEPT !.form.avatar = r.avatar, !.uploading = FALSE]
  /\ past' = [past EXCEPT !.odd = IF ProfileForm THEN @ ELSE @ \cup {"late"},
                          !.given = @ \cup {<<"avatar", r.avatar>>}]
  /\ Land(i)
  /\ UNCHANGED <<server, inputs>>

AvatarFailed(i) ==
  /\ AtProfile /\ flight[i].op = "upload"
  /\ ui' = [ui EXCEPT !.uploading = FALSE]
  /\ Land(i)
  /\ Untold /\ UNCHANGED inputs

ProfileNext ==
  \/ LoadUserData \/ EditProfile \/ HandleProfileFieldChange \/ HandleProfileSave
  \/ HandleCancel \/ HandleAvatarChange
  \/ CreateReview \/ UpdateReview \/ DeleteReview \/ ReviewWrites \/ ReviewFails
  \/ \E i \in DOMAIN flight : GetMe(i)
  \/ \E i \in DOMAIN flight : UpdateMeReads(i)
  \/ \E i \in DOMAIN flight : UpdateMeWrites(i)
  \/ \E i \in DOMAIN flight : StorePicture(i)
  \/ \E i \in DOMAIN flight : UserDataLoaded(i)
  \/ \E i \in DOMAIN flight : UserDataFailed(i)
  \/ \E i \in DOMAIN flight : ProfileSaved(i)
  \/ \E i \in DOMAIN flight : ProfileSaveFailed(i)
  \/ \E i \in DOMAIN flight : AvatarUploaded(i)
  \/ \E i \in DOMAIN flight : AvatarFailed(i)

ProfileSpec == ProfileInit /\ [][ProfileNext]_pageVars
-----------------------------------------------------------------------------
\* With nothing under way the store knows the user as the server keeps him, and a
\* closed form is his: unless the profile was never read, an answer was lost, a
\* picture arrived after the form was closed, the form was changed while it was
\* being saved, a name or phone number was blanked, which the server ignores, or a
\* text that was saved is not the one that was entered.  The reviews a user has
\* are counted, and what he saved stays, unless two writes of his row met.
ProfileExplained ==
  AtProfile =>
    /\ flight = <<>> /\ ~ui.loading =>
         /\ \/ ui.user = server.row.profile
            \/ past.odd \cap {"blind", "lost", "reverted"} # {}
         /\ At("profile") /\ ~ui.editing =>
              \/ ui.form = FormOf(ui.user) /\ HeaderShows = server.row.profile
              \/ past.odd \ {"miscounted"} # {}
    /\ \/ server.row.reviewCount = Cardinality(server.reviews)
       \/ "miscounted" \in past.odd

\* What a save makes of a field is what is sent of something the user entered in
\* that field, or of what the server itself had: a name or phone number nobody
\* touched is sanitized, a city is replaced by the name it is listed under.
\* Nothing of another field, of an older profile or of an empty form gets into it:
\* unless the page never read the profile it saves, an answer was lost and the form
\* went back to what was before, or a review writes the profile it read.
SavesWhatWasGiven ==
  [][ AtProfile =>
        \A f \in ProfileFields :
          LET old == server.row.profile[f]
              new == server'.row.profile[f] IN
          \/ new = old
          \/ \E v \in Values(f) : <<f, v>> \in past.given /\ new = SentAs(f, v)
          \/ f \in PageFields /\ new = SentAs(f, IF f = "city" THEN NormalCity[old] ELSE old)
          \/ past.odd \cap {"blind", "lost"} # {}
          \/ "reverted" \in past'.odd ]_pageVars
=============================================================================
