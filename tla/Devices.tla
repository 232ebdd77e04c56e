--------------------------------- MODULE Devices ---------------------------------
(***************************************************************************)
(* DeviceService, called by Pages/devices: enable or disable, edit and     *)
(* delete a credential.  Each request reads the document and then replaces *)
(* or deletes it.  The counts of the Account document are not touched.     *)
(***************************************************************************)
EXTENDS CredentialStore

CONSTANT DeviceRequests \* slots of device requests under way

VARIABLE editing \* the device requests under way

DeviceRequest ==
  [op : {"replace", "delete"}, credential : CredentialIds, saved : CredentialDoc]

ASSUME NoDeviceAssumption == None \notin DeviceRequest

DevicesTypeOK == editing \in [DeviceRequests -> DeviceRequest \cup {None}]

DevicesInit == editing = [r \in DeviceRequests |-> None]

Begin(r, op, c, doc) ==
  /\ editing[r] = None
  /\ editing' = [editing EXCEPT ![r] = [op |-> op, credential |-> c, saved |-> doc]]
  /\ UNCHANGED storeVars

OwnedBy(b, c) ==
  /\ session[b] # None
  /\ Exists(c)
  /\ credentials[c].account = session[b].account
--------------------------------------------------------------------------------
ChangeDeviceStatus(b, c, r) ==
  /\ OwnedBy(b, c)
  /\ Begin(r, "replace", c, [credentials[c] EXCEPT !.enabled = ~@])

DeleteDevice(b, c, r) ==
  /\ OwnedBy(b, c)
  /\ Begin(r, "delete", c, credentials[c])

(***************************************************************************)
(* UpdateDeviceAsync finds the credential by its id alone and takes the    *)
(* status from the form of Pages/devices/Edit.                             *)
(***************************************************************************)
UpdateDevice(b, c, status, r) ==
  /\ session[b] # None
  /\ Exists(c)
  /\ Begin(r, "replace", c, [credentials[c] EXCEPT !.enabled = status])

SaveDevice(r) ==
  /\ editing[r] # None
  /\ \/ /\ editing[r].op = "replace"
        /\ ReplaceCredential(editing[r].credential, editing[r].saved)
     \/ /\ editing[r].op = "delete"
        /\ DeleteCredential(editing[r].credential)
  /\ editing' = [editing EXCEPT ![r] = None]
  /\ UNCHANGED <<attestations, accounts, session, minted, signCounts>>

\* The document is gone or the database call throws.
DeviceFails(r) ==
  /\ editing[r] # None
  /\ editing' = [editing EXCEPT ![r] = None]
  /\ UNCHANGED storeVars

DevicesNext ==
  \E r \in DeviceRequests :
    \/ \E b \in Browsers, c \in CredentialIds :
         \/ ChangeDeviceStatus(b, c, r)
         \/ DeleteDevice(b, c, r)
         \/ \E status \in BOOLEAN : UpdateDevice(b, c, status, r)
    \/ SaveDevice(r)
    \/ DeviceFails(r)
================================================================================
