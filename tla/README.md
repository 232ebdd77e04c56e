# Fido2me: models, model checking and proofs

Fido2me is an OpenID Connect provider without passwords: users register and
sign in with FIDO2 authenticators, keep a list of their devices, verify an
e-mail address, register OAuth applications, and approve sign-ins of other
browsers (CIBA). The application is `src/src/Fido2me`. It stands on the
WebAuthn library in `src/src/Fido2`, `src/src/Fido2.Models` and
`src/src/Fido2.AspNet`, on the closed Duende IdentityServer, and on Azure
Cosmos DB behind EF Core. Its pages run scripts in the browser, which take a
form to an authenticator and show dialogs.

This directory has eight specifications of it, six of the server and two of the browser. Each comes with configurations
for TLC, which checks small instances, and with a proof module whose theorems
TLAPS checks for every value of the constants. `PROJECT.json` lists the runs,
the theorems, the hazards, and the lines that each definition stands for; the
paths below are those of `src/src`.

    tlc -workers 2 -config MCLogins.cfg MCCredentials
    tlapm CredentialsProofs.tla

## 1. Inventory

### Components

| component | state | operations | hard behaviour |
|---|---|---|---|
| Registration and add device: `FidoRegistrationService`, `Pages/auth/Register`, `Pages/devices/Add` | Credentials, Attestations and Accounts containers; a protected cookie per ceremony | Start and Complete of two ceremonies; `CompleteAttestation` saves three documents | races for a username, partial saves, resubmission, lost updates of the device counts |
| Login: `FidoLoginService`, `Pages/auth/Login`, `Logout` | login cookie, identity cookie, signature counter | Start, Complete, logout | whole-document saves of stale copies, counters of logins that overtake each other, deletes between read and save |
| Device management: `DeviceService`, `Pages/devices` | the Credential documents | enable or disable, edit, delete | the same documents as the logins |
| Account email: `AccountService`, `Pages/profile` | the address and its `EmailVerification` in the Account | ask for an address, mail a code, verify | stale copies bring back old codes and forget failed attempts; mail lost or late |
| CIBA login: `CibaService`, stores in `Duende/`, `Pages/ciba`, `Pages/auth/CibaLogin` | CibaLoginRequests container, a cookie, sessions | start, consent, deny, continue, expire | consents that overlap, requests that are kept, claims taken from another request |
| OAuth applications: `OidcBasicClientService`, `Pages/apps`, `ClientStore` | OidcBasicClients container, TempData cookie | generate, create, edit, toggle, delete, look up | two tabs and one TempData, stale saves, delete and create again |
| Authorization codes: `PersistedGrantStore` | OidcPersistedGrants container | store, get, remove | redemptions that overlap, clients that change meanwhile |
| Metadata service: `DistributedCacheMetadataService`, `DateTimeUtilities` | a memory cache in each process, a distributed cache | look up an AAGUID | expiry computed from several clocks' boundaries, fetches that overtake each other, failing repository, restarts |
| Verification library: `Fido2NetLib`, `Authenticator*Response`, `AttestationFormat/*`, `CryptoUtils` | none; the caller keeps options and credentials | verify an attestation, verify an assertion | eight formats, each with its own binding; parts of different ceremonies |
| Decoders: `Cbor/`, `Asn1Element`, `Objects/` | none | decode and encode | boundaries of lengths (not modelled) |
| Metadata repositories: `Fido2/Metadata/` | none that lasts | download, check and parse the BLOB | certificate chain of the BLOB (not modelled) |
| Scripts of the pages: `wwwroot/assets/js/fido2`, the scripts in `Pages/auth/Login`, `Register`, `Pages/devices/Add` | the options the page holds, the hidden inputs of its form | submit, fetch options, ask the authenticator, send its answer, alert | submissions that overlap share the options, the dialog and the browser's one ceremony |
| Dialogs: `wwwroot/assets/vendors/sweetalert2` | one popup, instances in WeakMaps, a global timer, classes and `aria-hidden` of the page | fire, close, confirm, deny, update, validate, timer, loader, focus | closing is an animation, a timeout and a disposal, with other dialogs fired in between; late answers of hooks |
| Toasts: `wwwroot/assets/vendors/toastify` | elements in the body, timeouts | show, pause, close, hide, reposition | timeouts that are cleared and set again, removals that overlap |
| Prefetching: `wwwroot/js/instant.js` | one `<link>`, a timer, listeners | touch, hover, prefetch, stop | mouse events made up for touches, late timers |
| The rest: e-mail sending, resource store, CORS, configuration, listings, unused services, samples of the theme | none | - | none of its own |

### How they interact

Browsers carry the state of a ceremony: Start answers with a data-protected
cookie, Complete reads it back, and only a response that arrives deletes it, so
the same cookie can be posted again. Registration, login and the device pages
meet in the Credential and Account documents. Adding a device and verifying an
e-mail address meet in the Account. A sign-in by CIBA takes its credential from
a request another session approved, and produces a session that can approve in
its turn. The authorization code flow asks `ClientStore` for documents which the
application pages change meanwhile. The library is called by the registration
and login services and asks the metadata service for the model of an
authenticator.

In the browser, a submit handler asks for options, fires a dialog that waits,
calls the authenticator, and appends the answer to the form or sends it itself.
The scripts know of a dialog only what `Swal.fire` promises them, which is the
module `Dialogs`: `SweetAlert` implements it, and `PageScripts` is built on it.
Toasts, prefetching and the inside of a dialog (timer, buttons, input) share no
state with the scripts or with each other.

The database decides what concurrency can do. No entity has a concurrency
token (`Data/DataContext.cs`), so EF Core replaces the whole document with
the one that the request read and changed; creating an id that exists fails, as
does replacing or deleting one that does not; and the provider writes one
document at a time, in the order they were added. Every read-then-save pair in
the models is therefore two steps, and any number of requests can be between
them.

### What makes each part correct

* Credentials: a login of a genuine authenticator is never refused over its
  counter; sessions stand for a stored credential of that account; accounts,
  attestations and counts agree with the credentials saved; deleted credentials
  stay deleted.
* E-mail: an address shown as verified was proven for that account, whatever
  stale copy was saved; failed attempts are not forgotten by accident.
* CIBA: a session belongs to one user, and somebody of that user approved it.
* Clients and codes: clients without secret always prove possession; a spent
  code is not spent again; a client is created only by a post that held its id,
  and no edit brings a deleted one back.
* Metadata: no cache serves a BLOB beyond what its rule of expiry promises.
* Scripts: no dialog goes on waiting behind a ceremony that failed, and the last
  word of every submission is its outcome.
* Dialogs: one at a time, whatever is late; each answered once, a confirmation
  only by its own `preConfirm`; the page behind is hidden while one shows and
  never afterwards; timers exact, keyboard trapped, the choice read is the user's.
* Toasts and prefetching: a toast goes, unless the pointer is on it; toasts do not
  overlap; nothing stays prefetched that nothing points at.
* Verification: every accepted response was made for this ceremony, at this
  site, by the key it is registered with, and by the model the metadata names.

### Hazards

`PROJECT.json` lists 40, at their lines, with the properties that would catch
each. Where the code itself permits what is feared (a lost update of the failed
attempts, a second token of a code redeemed twice at once, a fall of the shared
cache), the note of the hazard says so, and the property bounds how far it goes.
Four have none. A denial that is not saved, a null answer of the
metadata service and an address that is saved though its mail was never sent
leave nothing that a later state could contradict, and the two
hidden inputs of overlapping submissions are settled by the server's check of
the challenge. The models contain all four.

## 2. Modules

| module | models | extends |
|---|---|---|
| `CredentialStore` | the three containers, the sessions, what the authenticators hold, and the writes of EF Core | |
| `Registration`, `Login`, `Devices` | one service each, every request a read step and its save steps | `CredentialStore` |
| `Credentials` | the three services interleaved, and the properties | the three, instance of `Ownership` |
| `Ownership` | what the three services promise together: an abstract specification | |
| `AccountEmail` | `AccountService` and the stale Account copies of an added device | instance of `AddressProof` |
| `AddressProof` | what the verification of an address promises: an abstract specification | |
| `Ciba` | the CIBA pages, `CibaService`, and the request store | instance of `BackchannelLogin` |
| `BackchannelLogin` | what a sign-in by CIBA promises: an abstract specification | |
| `OidcClients` | applications pages, `OidcBasicClientService`, `ClientStore` | instance of `ClientRegistry` |
| `ClientRegistry` | what the application pages promise together: an abstract specification | |
| `AuthorizationCodes` | the code flow over those clients | `OidcClients` |
| `MetadataService` | the two-level cache | |
| `AttestationStatements` | verification of the eight formats and trust paths, as operators | |
| `Verification` | ceremonies, authenticators' answers, both verifications | `AttestationStatements` |
| `Dialogs` | what `Swal.fire` promises: an abstract specification | |
| `SweetAlert` | instances, popup, closing, disposal, late answers, page | instance of `Dialogs` |
| `PageScripts` | the submissions of the five pages with a ceremony | instance of `Dialogs` |
| `Toastify`, `InstantPage` | toasts; prefetching | |
| `DialogTimer`, `DialogButtons`, `DialogInput` | the timer, the buttons and focus, the choice of a dialog | |
| `BrowserPage` | a page with the scripts it loads | the six |
| `MC*` | model values, symmetry and concrete inputs for TLC | the specification |
| `*Proofs` | theorems and proofs | the specification and `TLAPS` |

Operators whose name has an underscore and which carry the comment `mutant`
are altered copies of the definition below them. No specification uses them.
They are there to show that a property notices the mistake they make.

### Correspondence with the code

**Credentials.** `credentials`, `attestations` and `accounts` are the containers;
`session` is the identity cookie, `registrationCookie`, `addCookie` and
`loginCookie` the protected cookies, `registering`, `loggingIn` and `editing`
the requests under way with the copies they read. `minted` and `signCounts`
belong to the authenticators. `registered` is history: under which account
and username a credential was ever saved. A challenge is random and never
repeated, so it is named by the credential id the authenticator mints in answer
to it. `RegistrationStart`/`AddNewDeviceStart` and `RegistrationComplete`/
`AddNewDeviceComplete` are the service methods of those names up to their save;
`SaveCredential`, `SaveAttestation` and `SaveAccount` are the three writes of
one `SaveChangesAsync`, `RegistrationInterrupted` a stop or a failed call
between them, `Answer` the response that deletes the cookie or is lost. `LoginComplete` reads the document and
accepts the counter, `SaveLogin` replaces it, and `SignIn` is the `SignInAsync` of the page that follows, with
as many steps of others between them as there may be; `LoginFails` is a stop before either.
A new credential stores the counter that its attestation reports (`FirstCounter`).
`ChangeDeviceStatus`, `UpdateDevice` and `DeleteDevice` read, and `SaveDevice`
writes. The nickname, descriptions and keys decide nothing and are left out.
The other checks of an assertion are in `Verification`.

**AccountEmail.** `profiles` holds the fields of the Account that these
requests read. `UpdateAccount` (the count), `ReadAccount`, `SaveAccount` and `SendEmail` are
the calls of `UpdateAccountAsync` in their order; `VerifyEmail` compares
the code and prepares the save; `AddDevice` is the copy that
`CompleteAttestation` reads and saves. `drawn`, `mail`, `proven` and `burnt` are the
outside world and history. Codes drawn never coincide. A code that is not a
number arrives as 0, the value of a nullified challenge.

**Ciba.** `loginRequests` is the container. `CibaLoginStart` asks Duende for a
request, `ConsentYes`/`SaveConsent` is the consent page with
`UpdateByInternalIdAsync`, `ConsentNo` throws before its save, `Continue`
polls the token endpoint and `FinishContinue` reads the claims with
`FirstOrDefault` without an order: any document that fits the query. Scopes
and the binding message are left out.

**OidcClients, AuthorizationCodes.** A client id stands for its secret as well,
since the two are drawn and travel together. `tempData` is the cookie of the
browser that all its tabs share. Each create, edit, toggle and delete is what the
request reads (`AddBasicClient` the cookie; `EditClient`, `ChangeClientStatus`,
`DeleteClient` the document) and a later `SaveClient`, so a create post can be under
way when its cookie is gone.
`Authorize` and `TokenRequest` are Duende's lookup of the client, `Store`,
`ReadGrant` and `RemoveGrant` the three methods of `PersistedGrantStore` in the
order the endpoints call them.

**MetadataService.** `payloads` and `entries` are the memory caches,
`distributed` the shared one. `GetEntryAsync` answers from memory or starts a
lookup; `ReadDistributed`, `Fetch`, `FetchFails` and `StoreDistributed` are its
awaits. A value whose expiry is past is not kept, a null value is kept without
expiry until `Restart`. `got`, `before` and `answer` are history.

**Verification.** Cryptography is symbolic: a hash is the value it is of, and a
signature is its key and what it covers. Authenticators (`Create`, `Sign`)
answer ceremonies of this site and of another, and the actions
`MakeNewCredential` and `MakeAssertion` are given client data, authenticator
data and statement each from any answer. `profile` stands for the requirements on a certificate alone,
`wellFormed` for its decoding. `kind`, the authenticators' formats, and
`entries`, the metadata, are chosen at the start. The callback that says whether an
id is unique is the caller's. The application only uses lazy attestation
(`FidoRegistrationService.cs`), the library is modelled with both.

**SweetAlert.** `params`, `promise`, `currentInstance`, `timeout` and
`closeCallback` are the WeakMaps and `globalState` of `sweetalert2.js`;
`restoreFocusTimeout`, `disposals` and `pending` are what the browser has yet to
run: the 100 ms before the focus goes back, the timeouts of
`triggerDidCloseAndDispose`, and promises of validators, hooks and remote
options. `Fire` is the constructor with `_main`, which destroys the old
instance; `ButtonClick` is `onConfirmButtonClick` and `onDenyButtonClick` down
to the first promise; the answers of validators, hooks and options are actions
of their own, which find the dialog dismissed, replaced or updated. `page` has the classes,
`aria-hidden` and focus. The pages load the minified build of the same version.

**PageScripts.** One submission is one run of a submit handler; each action runs
to the handler's next `await`. `options` is the page's variable that all
submissions share, `form` the hidden inputs it collects, `refused` the
ceremonies the browser ended because another runs. `Fire` is one or two calls of
`Swal.fire` in a row. The pages with and without a fetch, with and without a
waiting dialog, and the scripts that send the answer themselves differ in the
tests on `page`.

**Toastify.** `countdowns` are the timeouts of `showToast` and `mouseleave`, each
with the element whose `timeOutValue` it is; `removals` the 400 ms of
`removeElement`; `place` what `reposition` writes, in units of one toast.

**InstantPage, DialogTimer, DialogButtons, DialogInput.** `urlToPreload`,
`mouseoverTimer` and the listeners are the script's; the timer's `remaining`,
`running` and `started` are the fields of `Timer`; `rendered` are the controls that the
parameters show, `displayed` those that their own style displays (the loader may display
one that the parameters hide, and hide one that they show), `loading` and
`toReplace` the loader and its `data-button-to-replace`; `checked` and
`grouped` the state of the select or the radio buttons.

## 3. Runs

Every passing run enumerates all states within its bounds.

| run | configuration | checks | shows |
|---|---|---|---|
| `registration` | 3 credentials, 2 accounts, 1 browser, 2 registration requests, 1 login | `AccountFollowsCredential`, `DevicesCountedOnce` | registrations and added devices that overlap, stop between their saves and are posted twice |
| `logins` | 1 credential, 2 browsers, 2 logins, 1 device request, counters from 1 to 3 | `CounterBehindAuthenticator`, `CounterFallsOnlyWhenOvertaken`, `ImplementsOwnership` (refinement) | logins, edits and deletes of one document in every order, a sign-in any time after the save of its login |
| `username_race` | 2 credentials, 2 browsers | `OneAccountPerUsername` (violated) | a name is checked at Start only |
| `email_overlap` | 2 accounts, 2 addresses, 2 requests, 3 codes | `AttemptsForgottenOnlyWhenOvertaken`, `ImplementsAddressProof` (refinement) | asking, mailing, verifying and adding devices in every order |
| `email_burnt` | 1 account, 1 address, 2 requests, 2 codes | `BurntCodeRefused` (violated) | a stale save restores a burnt code |
| `ciba` | 2 accounts of one name, 3 credentials, 2 requests, 2 browsers | `SessionsAreOneUsers`, `CompleteWasApproved`, `ImplementsBackchannelLogin` (refinement) | overlapping consents, expiry, chains of approvals |
| `ciba_continue` | 2 requests | `ContinueUsesItsRequest` (violated) | a continued sign-in reads some request of the user |
| `codes` | 2 accounts, 1 client, 2 page requests, 1 code, 2 endpoint requests | `PublicClientsProve`, `SpentCodesAreRefused`, `ImplementsClientRegistry` (refinement) | codes redeemed while clients change; a client created, edited and deleted in every order, also by posts that are late |
| `metadata` | 2 processes, 2 lookups, 1 AAGUID, time to 4 | `MemoryIsCurrent`, `MemoryIsOfThisHour`, `AnswersAreCurrent`, `DistributedFallsOnlyWhenOvertaken` | both caches, publication, failure and restart |
| `verification` | 2 ceremonies, 2 authenticators, 2 sites, 2 answers, 2 results | `AttestedHere`, `MintedForThisSite`, `GenuineModel`, `SignedHere` | all eight formats against five kinds of metadata |
| `dialogs` | 3 dialogs of 4 kinds, 1 awaited promise, 2 elements on the page | `OneDialogAlive`, `PageReachable`, `TimerIsOfLatest`, `ConfirmedByItsHook`, `ImplementsDialogs` (refinement), `SettledIsDisposed` (liveness) | dialogs fired, answered, updated and closed in every order with the tasks and answers that come late |
| `page` | each page: 2 submissions and 6 dialogs; 2 toasts shown twice; 3 links; a timer of 2 ticks; 5 controls; 3 options | `NoOrphanWaiting`, `LastWordIsOutcome`, `WaitingGoesAway` (liveness); `PointerPauses`, `CountdownRuns`, `NoneOverlap`, `ToastGoesAway` (liveness); `NothingPrefetchedIdly`; `TimerIsExact`; `LoaderGivesBack`, `FocusIsTrapped`; `ConfirmsChoice` | overlapping submissions, and the widgets of the browser |

The type invariants are theorems (section 6).

### Findings

The three violated runs are disagreements between the code and what its own
comments, messages and pages say.

1. `FidoRegistrationService.cs:54` refuses a taken username at Start, and Complete (line 111)
   does not look again: two ceremonies that overlap give one name to two accounts.
2. `AccountService.cs:93` "nulifies" a mistyped challenge, and a request that had
   read the Account before saves it back with the code intact and the
   failed attempt forgotten.
3. `CibaService.cs:125` compares `c.RequestId` with itself, so Continue takes
   its claims from any request of the user; a pending one has a null credential,
   which is an exception.

The models contain more that a reader may not expect, with no run of its own:

* `Consent.cshtml.cs:71` means to record a denial, and
  `BackChannelAuthenticationRequestStore.cs:131` throws on its missing scopes
  before the save (`ConsentNo`).
* `Create.cshtml.cs:44` takes the secret from a cookie that a second tab may have
  overwritten since the page showed another (`tempData`). A create post that is
  sent twice and still under way brings back a client that was deleted meanwhile
  (`SaveClient`); `ClientRegistry` allows it, and no post made later.
* A login whose ceremony fails alerts twice, and goes on to verify `undefined`
  (`CeremonyAlerts`); an overlapping submission posts the hidden input of an
  earlier one as well (`Post`); requests for options that fail on Login and Register
  end without a word (`OptionsRejected`).
* `hideLoading` displays the button that the loader replaced, and with options or a
  value that are a promise that is Confirm although the parameters hide it
  (`sweetalert2.js:2325` and `2363`; its comment at 1551 speaks of hiding the loader and
  showing back the button that was hidden by it). `LoaderGivesBack` therefore says which buttons
  are there, not that no other is.
* A second loader that takes the place of a first leaves the first one's button
  hidden, until an update renders it (`overtaken`); Shift+Tab on the popup itself leaves the dialog
  (`FocusIsTrapped` is about its controls); `Swal.update` takes one radio button out of
  its group (`UpdateInput`); an `inputValue` of 0 preselects nothing (`Falsy`).
* A toast object that is shown again forgets its first element, which then never
  goes by itself: its countdown removes the second element (`TargetOf`), also while the
  pointer is on that one, though `toastify.js:56` and `152` promise that a countdown stops
  for the toast that is pointed at. `PointerPauses` says that the pointer stops the countdown of the
  element it is on, and that only the countdown of an earlier element of the object can remove it.

## 4. Bounds, and why they are enough

`MaxCounter`, `MaxCode`, `MaxTime`, `MaxNumber`, `MaxAnswers` and `MaxResults`
cap what would grow for ever; each is a guard of the action that would grow it.
The sets of ids are finite because they name what may be created in one behaviour.
Where every id has been used the system of the model stops, hence
`CHECK_DEADLOCK FALSE` in all runs but `metadata`, whose clock and restarts
leave something to do in every state. So does a page whose submissions, dialogs or toasts are used up,
and one that the browser has left.

* Stale copies need two requests that overlap, and for a counter that falls two
  logins beside a device request: one slot more than the pair. Overtaking by a third request adds no
  new kind of step, because a save depends only on its own copy and the present document.
* In `logins` the authenticator begins at 1 and counts to 3: a registered counter that is not 0, and two
  logins above it. Its logins name no username (`LoginNames`), which allows every credential and
  so all that a username allows; those of `registration` and `username_race` begin with one too.
* `registration` has one account more than a lost update needs and three
  credentials, so that a count of two can be reached beside a conflict. All
  its credentials are counterless, and `logins` has the counters.
* `codes` has two slots for creates, edits, toggles and deletes: a create post and its duplicate, or
  either beside a delete. It has one client id; that the browser holds another one meanwhile is covered
  by the theorem alone.
* `FailedAttemptsLimit` is 1 where the code has 5: its test and its increment
  do not depend on the value; the proofs leave it open.
* `ciba` gives two accounts one username, which finding 1 makes possible, and adds
  a username that nobody has (the request is then for the empty Guid).
* `metadata` has an hour of two ticks, a buffer of one, and three ticks for the
  distributed cache, so that each boundary lies on another tick than the others and
  time to 4 crosses all of them.
* In `verification` two answers are enough to mix a foreign part into a
  response to this ceremony, and for a response of `get` after its
  registration. Mixing parts of two answers to `get` is beyond the run and
  covered by the theorem alone.

* `dialogs` has three instances: one that is closing, one that takes its place, and one
  fired while the tasks of both wait. With its four kinds of dialog (a validated input
  with a hook, a toast with a timer, a dialog beside the page, an animated modal) every
  branch of closing is taken. One awaited promise at a time is enough for an answer to
  meet another dialog than it was asked for; the proofs allow any number.
* `page` has two submissions, the fewest that overlap, and six dialogs, which is what two
  submissions that fail and alert twice fire. Its dialog with buttons has any set of the five
  controls, and an update to any other. Two shows of a toast make a forgotten element,
  two removals of one element overlap, and the screen is narrow, where both sides share a stack.
  The widgets share no state, so each is on a page of its own and not multiplied with the others.

Symmetry is used over ids that the specification does not tell apart, only in runs
that check safety. Credentials are interchangeable because `Counterless` has all or none of them.

## 5. Fairness

On the server none is assumed, and no liveness is claimed. The application
schedules nothing of its own: there are no timers, queues or background workers in
`src/src/Fido2me`, every step is taken by a user, a browser or a client that may
go away, and every request may be interrupted. What must eventually happen (a mail
arrives, a poll succeeds) depends on actors outside the code.

In the browser there are timers, and a browser that keeps a page open runs them.

* `SweetAlert!FairSpec`: weak fairness of the end of the closing animation, of the timeout that
  gives the focus back, and of each disposal. Clicks, answers of hooks and the timer of a dialog
  have none. `SettledIsDisposed` follows: an answered dialog is forgotten and gone.
* `FairScripts`: a fetch ends with an answer or an error; a ceremony ends, because the options
  carry a timeout; a success dialog closes after its 2 s; a submitted form takes the browser
  away. The user need not answer any dialog. `WaitingGoesAway` follows.
* `FairToasts`: countdowns and the 400 ms of a removal end. `ToastGoesAway` follows, for an object shown
  once, unless the pointer rests on its toast.

Weak fairness is enough: each of these steps stays enabled until it is taken or its
object is gone.

## 6. What is proved

All theorems have the form `Spec => []P`, `Spec => [][A]_v` or `Spec => Abstract!Spec`, and hold for any
sets of ids and any bounds. They assume what the modules' named `ASSUME`s state:
that `None` is no ordinary value, that bounds are naturals, that intervals are
positive (`MetadataService`), that accounts have usernames and credentials
accounts (`Ciba`), the types of the authenticators and of the metadata (`Verification`), and the
types of the options and links, delays and toasts that a page gives its scripts.

| module | theorems | the inductive invariant, and why it is needed |
|---|---|---|
| `CredentialsProofs` | `TypeCorrect`, `CountersStayBehind`, `SessionsAreBacked`, `AccountsFollowCredentials`, `DevicesAreAlwaysCountedOnce`, `DeletedAlwaysStaysDeleted`, `FallsAreOvertaken`, `OwnershipIsImplemented` | `CounterInv`: also the assertions and the documents that logins and edits have yet to save are behind the authenticator. `OwnerInv`: every copy that may be written back, every login that is saved and not yet answered and every session has an owner that was registered. `AccountInv`: what a registration has saved at each stage. `CountedInv`: a login under way of an authenticator that counts carries a counter above the one it read. `DeviceInv`: each attestation belongs to one account (a map that is history and is only claimed to exist, since a credential that is deleted and registered again may be saved under two); a copy of an Account that a registration read counts no more devices than the account has attestations without its own, so that saving it with one more counts at most those there are |
| `AccountEmailProofs` | `TypeCorrect`, `VerifiedIsProven`, `OneAddress`, `AttemptsCount`, `AddressProofIsImplemented` | every copy of a profile is truthful, stored or stale: its code was drawn for this account and address, and what it calls verified was proven. Stale saves then cannot do harm. Messages carry codes of their recipient. `AskedInv`: every copy shows an address that was asked for the account, which the code of a nullified challenge does not tell any more |
| `CibaProofs` | `TypeCorrect`, `NoMixedSessions`, `CibaIsApproved`, `CompleteIsApproved`, `BackchannelLoginIsImplemented` | the subject of a request never changes and it does not become incomplete again, consents under way hold it and a credential of it, a request that Continue has found complete stays so until its claims are read, and every approval has its request still stored |
| `AuthorizationCodesProofs` | `TypeCorrect`, `PublicClientsAlwaysProve`, `SpentCodesAreAlwaysRefused`, `ClientRegistryIsImplemented` | `PkceInv`: every copy of a client, in the store and in the requests under way, keeps a secret or requires PKCE. `CodeInv`: a code that a token was issued for is consumed, and one about to be consumed was read before any token |
| `MetadataServiceProofs` | `TypeCorrect`, `MemoryIsAlwaysCurrent`, `MemoryIsAlwaysOfThisHour`, `AnswersAreAlwaysCurrent`, `FallsAreOvertaken` | `Timely`: a value in memory expires no later than the full hour after it was got and its BLOB's next update. `NumberInv`: the BLOBs stored and under way are numbered no higher than the one published |
| `VerificationProofs` | `TypeCorrect`, `AttestedCredentialsWereMadeHere`, `CredentialsAreForThisSite`, `AttestedModelsAreGenuine`, `AssertionsWereSignedHere` | `StatementBinds`, by cases over the formats: a statement verifies only with the data it was made over (for U2F, its part of them). `CreationInv` and `SigningInv`: what an answer says is true of its authenticator and site. `StatementSignsCreation`: no statement's signature covers the client data of a `get` |
| `SweetAlertProofs` | `TypeCorrect`, `AlwaysOneDialog`, `ClosingMeansSettled`, `PageAlwaysReachable`, `ClassesAlwaysMatch`, `FocusAlwaysReturnsToPage`, `TimerAlwaysOfLatest`, `HookAlwaysConfirms`, `DialogsAreImplemented` | at most the latest instance is alive and the popup is its own; a popup is closing exactly when its promise resolved and its removal waits; the classes of the body, by which later steps tell what to undo, are those of the popup's kind; what `data-previous-aria-hidden` holds is what the page had |
| `BrowserPageProofs` | `NoDialogIsOrphaned`, `OutcomeIsAlwaysTold`, `PointerAlwaysPauses`, `ToastsAlwaysCount`, `ToastsNeverOverlap`, `NothingIsPrefetchedIdly`, `TimerAlwaysExact`, `LoaderAlwaysGivesBack`, `FocusIsAlwaysTrapped`, `ChoiceAlwaysConfirmed`, `TypeCorrect` | one invariant for each part, which the steps of the others leave alone (`PartsStep`). `ScriptsInv`: the dialogs fired are numbered in order and only the last can be open, and a page that begins with options holds some that can be converted. `StackInv`: an element is in the body once and lies where `reposition` says. `CountdownInv`: a countdown is the one its element knows, and none is left of the element under the pointer. `LoaderInv`: a button that the parameters show is displayed, or the loader stands for it, or its loader went over to another |

Five theorems are refinements. Each maps the first state to a first state, and
every step to a step of the abstract specification or to none.

* `OwnershipIsImplemented`: under `CurrentOwner`, the account and username of each stored document,
  the saves of registrations, logins and device pages are a `Register`, `SignIn`, `Save` or
  `Delete`. Its substance is that the whole-document writes of stale copies never bring a
  deleted credential back and never give one to an owner that no registration stored with it,
  and that a browser is signed in only as an owner that the save of its login left the credential with
  (`admitted`): the answer may come after others changed or deleted it. `DeletedAlwaysStaysDeleted` says the first
  of these of `Credentials` alone.
* `ClientRegistryIsImplemented`: under `Registered` and `UnderWay`, drawing an id is a `Draw`, a create post a
  `Post`, the reads of edits and toggles an `Edit`, and their saves a `Create`, `Rewrite` or `Delete`. Its substance
  is that a client comes into being only by a post that its browser made while it held the id, which
  it does again when a duplicate of that post is late, and never by an edit; and that an
  edit changes neither account nor type of a client beyond those some request read.
* `BackchannelLoginIsImplemented`: under `RequestSubject` and `ConsentsGiven`, `Continue` that
  finds the claims of some request of the user (finding 3) is an `Accept`, which allows the
  credential of another request, and only of the same subject's. `CibaIsApproved` is the weaker statement
  about a session at any time after.
* `AddressProofIsImplemented`: under `AddressShown`, `AddressesAsked` and `AddressesReached`, a draw of a
  code is an `Ask`, a message a `Deliver`, a typed code that was mailed to the account a `Prove`, and
  every save a `Show`. Its substance is that a code proves one address of one account whatever messages and
  copies are under way. `VerifiedIsProven` follows from it, and is proved from the invariant directly.
* `DialogsAreImplemented`: under `Status`, every step of `SweetAlert` is a `Fire`, a `Settle` or none. Its
  substance is that no promise resolves twice, and that a dialog that was replaced never resolves.

Each proof has the same outline. The initial states satisfy the invariant. One
lemma for each action, or for a group of actions that write the same
variables, shows that its step preserves it. A final temporal step puts
these together.

The theorems about `Verification` say nothing of real cryptography: that a
signature cannot be made without its key, and that hashes do not collide, is
how the model represents them.

## 7. What is only model-checked

The three liveness properties, `SettledIsDisposed`, `WaitingGoesAway` and
`ToastGoesAway`: they rest on fairness and `ENABLED`, which are beyond the prover. The
properties of the findings are false. Every other property of a run is a theorem. One theorem is
of no run: `SessionsAreBacked`, whose state predicate says less than `ImplementsOwnership`.

## 8. What is not modelled

* The decoders (CBOR, ASN.1, JWT, TPM structures) and JSON converters: sequential,
  without state. `Verification` has their outcome as records and flags.
* The download, signature and certificate chain of the metadata BLOB, and the
  conformance and file system repositories, which the application never registers.
* Duende IdentityServer, except the order in which its endpoints call the
  stores; Cosmos DB, except the outcomes that the services meet; SendGrid, except that
  a message arrives, fails or is lost.
* AppID, extension outputs, and ECDAA (which the code refuses).
* Of the dialogs: how they look (titles, icons, images, progress steps), the checks of parameters,
  templates in the page, and `Swal.mixin`. Of their buttons: custom classes, by which `hideLoading` also looks
  for a button, `reverseButtons`, and audio, frames and tabindexes inside the text. Of the animations only
  whether closing has one, which an update may change (`hideClass`). `sweetalert2.all.js` is the same program with its styles.
  Of the toasts: contents, offsets, `selector` and `destination`. Samples of the theme
  (charts, editors, menus) call libraries with constant arguments.
* No page loads `toastify.js`, `instant.js` or the usernameless scripts yet; they are modelled
  because they are the site's own files and have the state that is hard to test.
* Pages that only read, configuration, telemetry, layout, styles, and
  services nothing calls (`FidoService`, `DiscoveryService`,
  `DevelopmentInMemoryStore`).

## 9. Plan

The order was: the credential documents and what is done to them, then the Account they
share with the e-mail pages, then sign-ins that begin elsewhere (CIBA, codes), then
the library below, and then the browser: what dialogs promise, the dialogs, the scripts over them, and
the other widgets. The modules of section 2 are complete. What is left, in order:

1. Abstract specifications of the rest of the server side, and refinements to them:
   a one-time code, a published metadata BLOB.
2. The composition of a page with the services: the hidden inputs that two overlapping
   submissions post, read by `Login` and `Registration`.
3. Encoding and decoding of authenticator data as functions over bytes, with the
   round trip and the leftover check (`Objects/AuthenticatorData.cs`,
   `Objects/AttestedCredentialData.cs`), lengths modulo 2^16.
4. The trust in a metadata BLOB (`Fido2MetadataServiceRepository`): token
   signature, chain and revocation, composed with the operators of
   `AttestationStatements`.
5. `ConformanceMetadataService`: two initialisations and lookups that overlap.
