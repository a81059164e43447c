--------------------------- MODULE PicturesProofs ---------------------------
(* Proofs about the profile pictures of the client: FileDialog and         *)
(* Textures, for any names, textures, attempts to join and frames in       *)
(* flight; and PicturePath, for any bytes, number of them, width of int    *)
(* and size of the image.                                                  *)
EXTENDS Textures, PicturePath, FiniteSetTheorems, SequenceTheorems,
        WellFoundedInduction, TLAPS

(* The dialog.  The threads that are in open() and past the test are       *)
(* counted: the flag says that there is one.                               *)

DialogInv == DialogTypeOK /\ DialogOnce

LEMMA DialogInitially == DialogInit => DialogInv
<1> SUFFICES ASSUME DialogInit PROVE DialogTypeOK /\ DialogOnce
  BY DEF DialogInv
<1>1. DialogTypeOK
  <2>1. clicks \in 0 .. MaxClicks /\ starting \in Nat /\ showing \in Nat
        /\ closing \in Nat /\ paths \in Nat
    BY ClicksAssumption DEF DialogInit
  <2>2. isOpen \in BOOLEAN
    BY Zenon DEF DialogInit
  <2> QED
    BY <2>1, <2>2 DEF DialogTypeOK
<1>2. showing + closing # 1 /\ showing + closing <= 1
  BY DEF DialogInit
<1>3. ~isOpen
  BY DEF DialogInit
<1> QED
  BY <1>1, <1>2, <1>3, Zenon DEF DialogOnce

\* Each step of a dialog thread, and a click.
LEMMA DialogThreadStep ==
  ASSUME DialogInv, DialogThreads PROVE DialogInv'
<1> USE DEF DialogInv, DialogTypeOK
<1>1. CASE OpenDialog
  <2>1. CASE isOpen
    BY <1>1, <2>1 DEF OpenDialog, DialogOnce
  <2>2. CASE ~isOpen
    BY <1>1, <2>2 DEF OpenDialog, DialogOnce
  <2> QED
    BY <2>1, <2>2
<1>2. CASE ChoosePath
  BY <1>2 DEF ChoosePath, DialogOnce
<1>3. CASE CancelDialog
  BY <1>3 DEF CancelDialog, DialogOnce
<1>4. CASE CloseDialog
  <2>1. DialogTypeOK'
    <3>1. clicks' \in 0 .. MaxClicks /\ starting' \in Nat /\ showing' \in Nat
          /\ closing' \in Nat /\ paths' \in Nat
      BY <1>4 DEF CloseDialog
    <3>2. isOpen' \in BOOLEAN
      BY <1>4, Zenon DEF CloseDialog
    <3> QED
      BY <3>1, <3>2
  <2>2. showing' + closing' # 1 /\ showing' + closing' <= 1
    BY <1>4 DEF CloseDialog, DialogOnce
  <2>3. ~isOpen'
    BY <1>4 DEF CloseDialog
  <2> QED
    BY <2>1, <2>2, <2>3, Zenon DEF DialogOnce
<1> QED
  BY <1>1, <1>2, <1>3, <1>4 DEF DialogThreads

LEMMA ClickStep ==
  ASSUME DialogInv, ClickLoad PROVE DialogInv'
  BY ClicksAssumption DEF DialogInv, DialogTypeOK, DialogOnce, ClickLoad

LEMMA PathTaken ==
  ASSUME DialogInv, TakePath PROVE DialogInv'
  BY DEF DialogInv, DialogTypeOK, DialogOnce, TakePath

\* How a step of the client is a step of the dialog, or none.
LEMMA DialogPart ==
  ASSUME [Next]_vars
  PROVE  DialogThreads \/ ClickLoad \/ TakePath \/ UNCHANGED dialogVars
  BY DEF Next, vars, Accepted, TurnedAway, OwnPicture, InboxEmpty, ChatArrives,
     OthersPicture, RenderJoin, NoPath, LoadPicture, LoadFails, ResizeFails,
     Minimized, Render, RenderLoad, RenderSwitch, GpuFinishes, DialogStep

\* There is never a second dialog, for any number of clicks.
THEOREM OneDialog == Spec => []DialogOnce
<1>1. Init => DialogInv
  BY DialogInitially DEF Init
<1>2. DialogInv /\ [Next]_vars => DialogInv'
  <2> SUFFICES ASSUME DialogInv, [Next]_vars PROVE DialogInv'
    OBVIOUS
  <2>1. CASE UNCHANGED dialogVars
    BY <2>1 DEF DialogInv, DialogTypeOK, DialogOnce, dialogVars
  <2> QED
    BY <2>1, DialogPart, DialogThreadStep, ClickStep, PathTaken
<1>3. DialogInv => DialogOnce
  BY DEF DialogInv
<1> QED
  BY <1>1, <1>2, <1>3, PTL DEF Spec

-----------------------------------------------------------------------------
(* The textures.  The panels always show the texture of the user.  The     *)
(* chat window shows a name under which the user never tried to join as    *)
(* the server's pictures have it; and where there was one such name, no    *)
(* file was loaded since and none half loaded, it shows the user's own.    *)

TextureTypes ==
    /\ created \in 0 .. MaxTextures
    /\ client \in 0 .. created
    /\ server \in [Names -> 0 .. created]
    /\ owner \in [1 .. MaxTextures -> Names \cup {NoName}]
    /\ chatIds \in [Names -> Ids]
    /\ gpu \in Seq(SUBSET Ids)
    /\ username \in Names \cup {NoName}
    /\ asked \subseteq Names

TexturesKnown ==
    /\ panelId = client
    /\ client # 0 => owner[client] \in asked \cup {Mine}
    /\ \A n \in Names : server[n] # 0 => owner[server[n]] = n
    /\ asked = {} => \A n \in Names : server[n] = 0

PicturesLoaded ==
    /\ member # "out" => username \in asked
    /\ reloaded => hasPicture
    /\ hasPicture => client # 0 \/ halfLoaded

ChatShows ==
    /\ \A n \in Names \ asked : chatIds[n] = server[n]
    /\ \A n \in Names :
         asked = {n} /\ ~reloaded /\ ~halfLoaded => chatIds[n] \in {NoId, client}

TexturesInv ==
    TextureTypes /\ GpuReadsLive /\ TexturesKnown /\ PicturesLoaded /\ ChatShows

\* The steps that neither create a texture nor load or join.
Quiet ==
    /\ UNCHANGED <<textureVars, loadVars, panelId, chatIds, username, hasPicture, asked>>
    /\ \/ UNCHANGED gpu
       \/ gpu # <<>> /\ gpu' = Tail(gpu)
       \/ gpu' = Append(gpu, {id \in Drawn : Live(id)})
    /\ UNCHANGED member \/ member # "out" \/ member' = "out"

LEMMA QuietSteps ==
  ASSUME [Next]_vars
  PROVE  \/ Quiet
         \/ OwnPicture \/ LoadPicture \/ ResizeFails
         \/ \E n \in Names : OthersPicture(n) \/ RenderJoin(n)
<1> USE DEF Quiet, chatVars, textureVars, loadVars
<1>1. CASE Accepted \/ TurnedAway \/ InboxEmpty \/ NoPath \/ Minimized \/ GpuFinishes
           \/ DialogStep \/ \E n \in Names : ChatArrives(n)
  BY <1>1 DEF Accepted, TurnedAway, InboxEmpty, NoPath, Minimized, GpuFinishes,
     DialogStep, ChatArrives
<1>2. CASE LoadFails
  BY <1>2 DEF LoadFails, TakePath
<1>3. CASE Render \/ RenderLoad \/ RenderSwitch
  BY <1>3 DEF Render, RenderLoad, RenderSwitch, Draw
<1>4. CASE UNCHANGED vars
  BY <1>4 DEF vars
<1> QED
  BY <1>1, <1>2, <1>3, <1>4 DEF Next

\* What is drawn exists.
LEMMA LiveIds ==
  ASSUME TextureTypes, NEW id, Live(id) PROVE id \in Ids
<1>1. created \in Nat /\ created <= MaxTextures /\ MaxTextures \in Nat
  BY TexturesAssumption DEF TextureTypes
<1>2. 0 .. created \subseteq Ids
  BY <1>1 DEF Ids
<1> QED
  BY <1>2 DEF Live, TextureTypes

\* The queue of the GPU, when it moves by a frame.
LEMMA GpuStep ==
  ASSUME TextureTypes, GpuReadsLive,
         \/ UNCHANGED gpu
         \/ gpu # <<>> /\ gpu' = Tail(gpu)
         \/ gpu' = Append(gpu, {id \in Drawn : Live(id)})
  PROVE  /\ gpu' \in Seq(SUBSET Ids)
         /\ \A i \in DOMAIN gpu' : \A id \in gpu'[i] : Live(id)
<1>0. gpu \in Seq(SUBSET Ids) /\ \A i \in 1 .. Len(gpu) : \A id \in gpu[i] : Live(id)
  BY LenProperties DEF TextureTypes, GpuReadsLive
<1>1. CASE UNCHANGED gpu
  BY <1>1 DEF TextureTypes, GpuReadsLive
<1>2. CASE gpu # <<>> /\ gpu' = Tail(gpu)
  <2>1. /\ gpu' \in Seq(SUBSET Ids)
        /\ Len(gpu') = Len(gpu) - 1
        /\ \A i \in 1 .. Len(gpu') : gpu'[i] = gpu[i + 1]
    BY <1>0, <1>2, HeadTailProperties
  <2>2. Len(gpu) \in Nat /\ DOMAIN gpu' = 1 .. Len(gpu')
    BY <1>0, <2>1, LenProperties
  <2>3. \A i \in 1 .. Len(gpu') : i + 1 \in 1 .. Len(gpu)
    BY <2>1, <2>2
  <2> QED
    BY <1>0, <2>1, <2>2, <2>3
<1>3. CASE gpu' = Append(gpu, {id \in Drawn : Live(id)})
  <2> DEFINE frame == {id \in Drawn : Live(id)}
  <2>1. frame \in SUBSET Ids /\ \A id \in frame : Live(id)
    BY LiveIds
  <2> HIDE DEF frame
  <2>2. /\ gpu' \in Seq(SUBSET Ids)
        /\ Len(gpu') = Len(gpu) + 1
        /\ \A i \in 1 .. Len(gpu) : gpu'[i] = gpu[i]
        /\ gpu'[Len(gpu) + 1] = frame
    BY <1>0, <1>3, <2>1, AppendProperties DEF frame
  <2>3. Len(gpu) \in Nat /\ DOMAIN gpu' = 1 .. Len(gpu')
    BY <1>0, <2>2, LenProperties
  <2>4. \A i \in DOMAIN gpu' : i \in 1 .. Len(gpu) \/ i = Len(gpu) + 1
    BY <2>2, <2>3
  <2> QED
    BY <1>0, <2>1, <2>2, <2>4
<1> QED
  BY <1>1, <1>2, <1>3

\* A new texture for the user, and for another.
LEMMA ClientSideCreated ==
  ASSUME TextureTypes, NEW whose \in Names \cup {NoName}, CreateClientSide(whose)
  PROVE  /\ created' \in 0 .. MaxTextures
         /\ client' \in 0 .. created' /\ client' # 0 /\ client' \in Ids
         /\ server' = server /\ server' \in [Names -> 0 .. created']
         /\ owner' \in [1 .. MaxTextures -> Names \cup {NoName}]
         /\ owner'[client'] = whose
         /\ \A n \in Names : server[n] # 0 => owner'[server[n]] = owner[server[n]]
         /\ gpu' = <<>>
<1>1. created \in Nat /\ created + 1 <= MaxTextures /\ MaxTextures \in Nat
  BY TexturesAssumption DEF TextureTypes, CreateClientSide
<1>2. /\ created' = created + 1 /\ client' = created + 1 /\ server' = server
      /\ owner' = [owner EXCEPT ![created + 1] = whose]
      /\ gpu' = <<>>
  BY DEF CreateClientSide, ClearTexture
<1>3. \A n \in Names : server[n] \in 0 .. created
  BY DEF TextureTypes
<1>4. server' \in [Names -> 0 .. created']
  <2>1. 0 .. created \subseteq 0 .. created'
    BY <1>1, <1>2
  <2> QED
    BY <1>2, <2>1 DEF TextureTypes
<1>5. \A n \in Names : server[n] # 0 => server[n] \in 1 .. MaxTextures /\ server[n] # created + 1
  BY <1>1, <1>3
<1>6. created + 1 \in 1 .. MaxTextures /\ created + 1 \in Ids
  BY <1>1 DEF Ids
<1> QED
  BY <1>1, <1>2, <1>4, <1>5, <1>6 DEF TextureTypes

LEMMA ServerSideCreated ==
  ASSUME TextureTypes, NEW name \in Names, CreateServerSide(name)
  PROVE  /\ created' \in 0 .. MaxTextures
         /\ client' = client /\ client' \in 0 .. created'
         /\ server' \in [Names -> 0 .. created']
         /\ server'[name] # 0 /\ server'[name] \in Ids
         /\ \A n \in Names \ {name} : server'[n] = server[n]
         /\ owner' \in [1 .. MaxTextures -> Names \cup {NoName}]
         /\ owner'[server'[name]] = name
         /\ \A n \in Names : server[n] # 0 => owner'[server[n]] = owner[server[n]]
         /\ client # 0 => owner'[client] = owner[client]
         /\ gpu' = <<>>
<1>1. created \in Nat /\ created + 1 <= MaxTextures /\ MaxTextures \in Nat
  BY TexturesAssumption DEF TextureTypes, CreateServerSide
<1>2. /\ created' = created + 1 /\ client' = client
      /\ server' = [server EXCEPT ![name] = created + 1]
      /\ owner' = [owner EXCEPT ![created + 1] = name]
      /\ gpu' = <<>>
  BY DEF CreateServerSide, ClearTexture
<1>3. client \in 0 .. created /\ \A n \in Names : server[n] \in 0 .. created
  BY DEF TextureTypes
<1>4. server' \in [Names -> 0 .. created']
  <2>1. 0 .. created \subseteq 0 .. created' /\ created + 1 \in 0 .. created'
    BY <1>1, <1>2
  <2> QED
    BY <1>2, <2>1 DEF TextureTypes
<1>5. \A n \in Names : server[n] # 0 => server[n] \in 1 .. MaxTextures /\ server[n] # created + 1
  BY <1>1, <1>3
<1>6. client # 0 => client \in 1 .. MaxTextures /\ client # created + 1
  BY <1>1, <1>3
<1>7. created + 1 \in 1 .. MaxTextures /\ created + 1 \in Ids /\ created + 1 # 0
  BY <1>1 DEF Ids
<1>8. server'[name] = created + 1 /\ \A n \in Names \ {name} : server'[n] = server[n]
  BY <1>2 DEF TextureTypes
<1>9. client' \in 0 .. created'
  BY <1>1, <1>2, <1>3
<1>10. owner' \in [1 .. MaxTextures -> Names \cup {NoName}] /\ owner'[created + 1] = name
  BY <1>2, <1>7 DEF TextureTypes
<1> QED
  BY <1>1, <1>2, <1>4, <1>5, <1>6, <1>7, <1>8, <1>9, <1>10 DEF TextureTypes

\* One lemma for each kind of step.
LEMMA QuietKeeps ==
  ASSUME TexturesInv, Quiet PROVE TexturesInv'
<1>1. /\ gpu' \in Seq(SUBSET Ids)
      /\ \A i \in DOMAIN gpu' : \A id \in gpu'[i] : Live(id)
  BY GpuStep DEF TexturesInv, Quiet
<1>2. UNCHANGED <<created, client, server, owner, reloaded, halfLoaded, panelId, chatIds,
                  username, hasPicture, asked>>
  BY DEF Quiet, textureVars, loadVars
<1>3. TextureTypes' /\ GpuReadsLive'
  BY <1>1, <1>2 DEF TexturesInv, TextureTypes, GpuReadsLive, Live
<1>4. TexturesKnown' /\ ChatShows'
  BY <1>2 DEF TexturesInv, TexturesKnown, ChatShows
<1>5. PicturesLoaded'
  BY <1>2 DEF TexturesInv, PicturesLoaded, Quiet
<1> QED
  BY <1>3, <1>4, <1>5 DEF TexturesInv

LEMMA OwnPictureKeeps ==
  ASSUME TexturesInv, OwnPicture PROVE TexturesInv'
<1>1. /\ CreateClientSide(username) /\ member = "in"
      /\ panelId' = ClientId(client')
      /\ chatIds' = [chatIds EXCEPT ![username] = ClientId(client')]
      /\ UNCHANGED <<reloaded, halfLoaded, member, username, hasPicture, asked>>
  BY DEF OwnPicture, loadVars
<1>2. username \in asked /\ asked \subseteq Names
  BY <1>1 DEF TexturesInv, PicturesLoaded, TextureTypes
<1>3. /\ created' \in 0 .. MaxTextures
      /\ client' \in 0 .. created' /\ client' # 0 /\ client' \in Ids
      /\ server' = server /\ server' \in [Names -> 0 .. created']
      /\ owner' \in [1 .. MaxTextures -> Names \cup {NoName}]
      /\ owner'[client'] = username
      /\ \A n \in Names : server[n] # 0 => owner'[server[n]] = owner[server[n]]
      /\ gpu' = <<>>
  BY <1>1, <1>2, ClientSideCreated DEF TexturesInv
<1>4. ClientId(client') = client'
  BY <1>3 DEF ClientId
<1>5. TextureTypes'
  BY <1>1, <1>3, <1>4, EmptySeq DEF TexturesInv, TextureTypes
<1>6. GpuReadsLive'
  BY <1>3 DEF GpuReadsLive
<1>7. TexturesKnown'
  BY <1>1, <1>2, <1>3, <1>4 DEF TexturesInv, TexturesKnown
<1>8. PicturesLoaded'
  BY <1>1, <1>3, Zenon DEF TexturesInv, PicturesLoaded
<1>9. ChatShows'
  BY <1>1, <1>2, <1>3, <1>4 DEF TexturesInv, ChatShows, TextureTypes
<1> QED
  BY <1>5, <1>6, <1>7, <1>8, <1>9 DEF TexturesInv

LEMMA OthersPictureKeeps ==
  ASSUME TexturesInv, NEW name \in Names, OthersPicture(name) PROVE TexturesInv'
<1>1. /\ CreateServerSide(name) /\ member = "in" /\ name # username
      /\ chatIds' = [chatIds EXCEPT ![name] = server'[name]]
      /\ UNCHANGED <<reloaded, halfLoaded, panelId, member, username, hasPicture, asked>>
  BY DEF OthersPicture, loadVars, chatVars
<1>2. username \in asked
  BY <1>1 DEF TexturesInv, PicturesLoaded
<1>3. /\ created' \in 0 .. MaxTextures
      /\ client' = client /\ client' \in 0 .. created'
      /\ server' \in [Names -> 0 .. created']
      /\ server'[name] # 0 /\ server'[name] \in Ids
      /\ \A n \in Names \ {name} : server'[n] = server[n]
      /\ owner' \in [1 .. MaxTextures -> Names \cup {NoName}]
      /\ owner'[server'[name]] = name
      /\ \A n \in Names : server[n] # 0 => owner'[server[n]] = owner[server[n]]
      /\ client # 0 => owner'[client] = owner[client]
      /\ gpu' = <<>>
  BY <1>1, ServerSideCreated DEF TexturesInv
<1>4. TextureTypes'
  BY <1>1, <1>3, EmptySeq DEF TexturesInv, TextureTypes
<1>5. GpuReadsLive'
  BY <1>3 DEF GpuReadsLive
<1>6. TexturesKnown'
  BY <1>1, <1>2, <1>3 DEF TexturesInv, TexturesKnown
<1>7. PicturesLoaded'
  BY <1>1, <1>3, Zenon DEF TexturesInv, PicturesLoaded
<1>8. /\ chatIds'[name] = server'[name]
      /\ \A n \in Names \ {name} : chatIds'[n] = chatIds[n]
  BY <1>1 DEF TexturesInv, TextureTypes
<1>9. ChatShows'
  <2>1. \A n \in Names \ asked : chatIds'[n] = server'[n]
    BY <1>3, <1>8 DEF TexturesInv, ChatShows
  <2>2. \A n \in Names : asked = {n} => n # name
    BY <1>1, <1>2
  <2> QED
    BY <1>1, <1>3, <1>8, <2>1, <2>2 DEF TexturesInv, ChatShows
<1> QED
  BY <1>4, <1>5, <1>6, <1>7, <1>9 DEF TexturesInv

LEMMA LoadKeeps ==
  ASSUME TexturesInv, LoadPicture PROVE TexturesInv'
<1>1. /\ CreateClientSide(Mine)
      /\ panelId' = ClientId(client')
      /\ hasPicture' = TRUE /\ reloaded' = TRUE
      /\ UNCHANGED <<chatIds, halfLoaded, member, username, asked>>
  BY DEF LoadPicture, TakePath
<1>2. /\ created' \in 0 .. MaxTextures
      /\ client' \in 0 .. created' /\ client' # 0 /\ client' \in Ids
      /\ server' = server /\ server' \in [Names -> 0 .. created']
      /\ owner' \in [1 .. MaxTextures -> Names \cup {NoName}]
      /\ owner'[client'] = Mine
      /\ \A n \in Names : server[n] # 0 => owner'[server[n]] = owner[server[n]]
      /\ gpu' = <<>>
  BY <1>1, ClientSideCreated DEF TexturesInv, Mine
<1>3. ClientId(client') = client'
  BY <1>2 DEF ClientId
<1>4. TextureTypes'
  BY <1>1, <1>2, EmptySeq DEF TexturesInv, TextureTypes
<1>5. GpuReadsLive'
  BY <1>2 DEF GpuReadsLive
<1>6. TexturesKnown'
  BY <1>1, <1>2, <1>3 DEF TexturesInv, TexturesKnown
<1>7. PicturesLoaded'
  BY <1>1, <1>2, Zenon DEF TexturesInv, PicturesLoaded
<1>8. ChatShows'
  BY <1>1, <1>2, Zenon DEF TexturesInv, ChatShows
<1> QED
  BY <1>4, <1>5, <1>6, <1>7, <1>8 DEF TexturesInv

LEMMA ResizeFailsKeeps ==
  ASSUME TexturesInv, ResizeFails PROVE TexturesInv'
<1>1. /\ hasPicture' = TRUE /\ halfLoaded' = TRUE
      /\ UNCHANGED <<created, client, server, owner, reloaded, panelId, gpu,
                     chatIds, member, username, asked>>
  BY DEF ResizeFails, TakePath, textureVars
<1>2. TextureTypes' /\ GpuReadsLive' /\ TexturesKnown'
  BY <1>1 DEF TexturesInv, TextureTypes, GpuReadsLive, Live, TexturesKnown
<1>3. PicturesLoaded' /\ ChatShows'
  BY <1>1, Zenon DEF TexturesInv, PicturesLoaded, ChatShows
<1> QED
  BY <1>2, <1>3 DEF TexturesInv

\* When the user joins, the id that the chat window is given is that of the
\* texture of the user, unless a picture was only half loaded.
LEMMA JoinKeeps ==
  ASSUME TexturesInv, NEW name \in Names, RenderJoin(name) PROVE TexturesInv'
<1>1. /\ UNCHANGED <<created, client, server, owner, halfLoaded, panelId, hasPicture>>
      /\ gpu' = Append(gpu, {id \in Drawn : Live(id)})
      /\ username' = name /\ asked' = asked \cup {name}
      /\ reloaded' = FALSE
      /\ chatIds' = IF hasPicture THEN [chatIds EXCEPT ![name] = ClientId(client)]
                    ELSE chatIds
  BY DEF RenderJoin, Draw, Join, textureVars
<1>2. /\ gpu' \in Seq(SUBSET Ids)
      /\ \A i \in DOMAIN gpu' : \A id \in gpu'[i] : Live(id)
  BY <1>1, GpuStep DEF TexturesInv
<1>3. ClientId(client) \in Ids /\ (client # 0 => ClientId(client) = client)
  <2>1. created \in Nat /\ created <= MaxTextures /\ MaxTextures \in Nat
        /\ client \in 0 .. created
    BY TexturesAssumption DEF TexturesInv, TextureTypes
  <2> QED
    BY <2>1 DEF ClientId, NullId, Ids
<1>4. chatIds' \in [Names -> Ids]
  BY <1>1, <1>3 DEF TexturesInv, TextureTypes
<1>5. TextureTypes'
  BY <1>1, <1>2, <1>4 DEF TexturesInv, TextureTypes
<1>6. GpuReadsLive'
  BY <1>1, <1>2 DEF GpuReadsLive, Live
<1>7. TexturesKnown'
  BY <1>1 DEF TexturesInv, TexturesKnown
<1>8. PicturesLoaded'
  BY <1>1, Zenon DEF TexturesInv, PicturesLoaded
<1>9. \A n \in Names \ {name} : chatIds'[n] = chatIds[n]
  BY <1>1 DEF TexturesInv, TextureTypes
<1>10. \A n \in Names \ asked' : chatIds'[n] = server'[n]
  BY <1>1, <1>9 DEF TexturesInv, ChatShows
<1>11. ASSUME NEW n \in Names, asked' = {n}, ~reloaded', ~halfLoaded'
       PROVE  chatIds'[n] \in {NoId, client'}
  <2>1. n = name /\ ~halfLoaded
    BY <1>1, <1>11
  <2>2. CASE hasPicture
    <3>1. client # 0
      BY <2>1, <2>2, Zenon DEF TexturesInv, PicturesLoaded
    <3> QED
      BY <1>1, <1>3, <2>1, <2>2, <3>1 DEF TexturesInv, TextureTypes
  <2>3. CASE ~hasPicture
    <3>1. ~reloaded
      BY <2>3, Zenon DEF TexturesInv, PicturesLoaded
    <3>2. chatIds' = chatIds /\ client' = client
      BY <1>1, <2>3
    <3>3. CASE asked = {}
      <4>1. chatIds[n] = server[n] /\ server[n] = 0
        BY <3>3 DEF TexturesInv, TexturesKnown, ChatShows
      <4> QED
        BY <3>2, <4>1 DEF NoId
    <3>4. CASE asked # {}
      <4>1. asked = {n}
        BY <1>1, <1>11, <3>4
      <4> QED
        BY <2>1, <3>1, <3>2, <4>1, Zenon DEF TexturesInv, ChatShows
    <3> QED
      BY <3>3, <3>4
  <2> QED
    BY <2>2, <2>3
<1>12. ChatShows'
  BY <1>10, <1>11 DEF ChatShows
<1> QED
  BY <1>5, <1>6, <1>7, <1>8, <1>12 DEF TexturesInv

LEMMA TexturesInitially == Init => TexturesInv
<1> SUFFICES ASSUME Init PROVE TexturesInv
  OBVIOUS
<1>1. TextureTypes
  <2>1. 0 \in 0 .. MaxTextures /\ NoId \in Ids
    BY TexturesAssumption DEF Ids, NoId
  <2> QED
    BY <2>1, EmptySeq DEF Init, TextureTypes
<1>2. GpuReadsLive
  BY DEF Init, GpuReadsLive
<1>3. TexturesKnown /\ ChatShows
  BY DEF Init, TexturesKnown, ChatShows, NoId
<1>4. PicturesLoaded
  BY Zenon DEF Init, PicturesLoaded
<1> QED
  BY <1>1, <1>2, <1>3, <1>4 DEF TexturesInv

\* Which texture each id stands for, in every reachable state.
THEOREM TexturesInvariant == Spec => []TexturesInv
<1>1. TexturesInv /\ [Next]_vars => TexturesInv'
  BY QuietSteps, QuietKeeps, OwnPictureKeeps, OthersPictureKeeps, LoadKeeps,
     ResizeFailsKeeps, JoinKeeps
<1> QED
  BY <1>1, TexturesInitially, PTL DEF Spec

\* A texture is destroyed only when no frame in flight reads it, for any number
\* of frames in flight.
THEOREM NoTextureInUseDestroyed == Spec => []GpuReadsLive
<1>1. TexturesInv => GpuReadsLive
  BY DEF TexturesInv
<1> QED
  BY <1>1, TexturesInvariant, PTL

AuthorsTyped == authors \subseteq Names

\* Whoever is shown to have said something is a user.
LEMMA AuthorsKnown == Spec => []AuthorsTyped
<1>1. Init => AuthorsTyped
  BY DEF Init, AuthorsTyped
<1>2. AuthorsTyped /\ [Next]_vars => AuthorsTyped'
  <2> SUFFICES ASSUME authors \subseteq Names, [Next]_vars PROVE authors' \subseteq Names
    BY DEF AuthorsTyped
  <2>1. CASE \E n \in Names : ChatArrives(n)
    BY <2>1 DEF ChatArrives
  <2>2. CASE \E n \in Names : OthersPicture(n) \/ RenderJoin(n)
    BY <2>2 DEF OthersPicture, RenderJoin, Draw
  <2>3. CASE \/ Accepted \/ TurnedAway \/ OwnPicture \/ InboxEmpty \/ NoPath
             \/ Minimized \/ GpuFinishes \/ DialogStep \/ UNCHANGED vars
    BY <2>3 DEF Accepted, TurnedAway, OwnPicture, InboxEmpty, NoPath, Minimized,
       GpuFinishes, DialogStep, vars
  <2>4. CASE LoadPicture \/ LoadFails \/ ResizeFails
    BY <2>4 DEF LoadPicture, LoadFails, ResizeFails, TakePath
  <2>5. CASE Render \/ RenderLoad \/ RenderSwitch
    BY <2>5 DEF Render, RenderLoad, RenderSwitch, Draw
  <2> QED
    BY <2>1, <2>2, <2>3, <2>4, <2>5 DEF Next
<1> QED
  BY <1>1, <1>2, PTL DEF Spec

\* The pictures that a frame draws exist and are of those they stand beside,
\* but in the three cases that FramesDrawRight names.
THEOREM PicturesShownRight == Spec => []FramesDrawRight
<1>1. TexturesInv /\ AuthorsTyped => FramesDrawRight
  <2> SUFFICES ASSUME TexturesInv, authors \subseteq Names PROVE FramesDrawRight
    BY DEF AuthorsTyped
  <2>1. panelId = NoId \/ Live(panelId)
    BY DEF TexturesInv, TexturesKnown, Live, NoId
  <2>2. ASSUME NEW n \in Names, chatIds[n] # NoId,
               ~(n \in asked /\ (reloaded \/ asked # {username} \/ halfLoaded))
        PROVE  /\ Live(chatIds[n])
               /\ owner[chatIds[n]] = n \/ (owner[chatIds[n]] = Mine /\ n = username)
    <3>1. CASE n \notin asked
      BY <2>2, <3>1 DEF TexturesInv, TexturesKnown, ChatShows, Live, NoId
    <3>2. CASE n \in asked
      <4>1. asked = {username} /\ n = username /\ ~reloaded /\ ~halfLoaded
        BY <2>2, <3>2
      <4>2. chatIds[n] = client /\ client # 0
        BY <2>2, <4>1, Zenon DEF TexturesInv, ChatShows, NoId
      <4>3. owner[client] \in {n} \cup {Mine}
        BY <4>1, <4>2 DEF TexturesInv, TexturesKnown
      <4> QED
        BY <4>1, <4>2, <4>3 DEF Live
    <3> QED
      BY <3>1, <3>2
  <2> QED
    BY <2>1, <2>2 DEF FramesDrawRight
<1> QED
  BY <1>1, TexturesInvariant, AuthorsKnown, PTL

-----------------------------------------------------------------------------
(* Powers of two.                                                          *)

\* 2 ^ n is the number of subsets of 1 .. n, which is all that the provers are
\* told of it.
LEMMA PowerCounts ==
  ASSUME NEW n \in Nat
  PROVE  /\ IsFiniteSet(1 .. n)
         /\ IsFiniteSet(SUBSET (1 .. n))
         /\ Cardinality(SUBSET (1 .. n)) = 2 ^ n
<1>1. IsFiniteSet(1 .. n) /\ Cardinality(1 .. n) = n
  <2>1. 1 \in Int /\ n \in Int
    OBVIOUS
  <2>2. IsFiniteSet(1 .. n) /\ Cardinality(1 .. n) = IF 1 > n THEN 0 ELSE n - 1 + 1
    BY <2>1, FS_Interval
  <2> QED
    BY <2>2
<1>2. Cardinality(SUBSET (1 .. n)) = 2 ^ Cardinality(1 .. n)
  BY <1>1, FS_SUBSET, Zenon
<1>3. IsFiniteSet(SUBSET (1 .. n))
  BY <1>1, FS_SUBSET, Zenon
<1> QED
  BY <1>1, <1>2, <1>3, Zenon

LEMMA PowerPositive ==
  ASSUME NEW n \in Nat
  PROVE  2 ^ n \in Nat \ {0}
<1> DEFINE S == SUBSET (1 .. n)
<1>1. IsFiniteSet(S) /\ Cardinality(S) = 2 ^ n /\ {} \in S
  BY PowerCounts
<1> HIDE DEF S
<1>2. Cardinality(S) \in Nat
  BY <1>1, FS_CardinalityType
<1>3. Cardinality(S) # 0
  BY <1>1, FS_EmptySet
<1> QED
  BY <1>1, <1>2, <1>3, Zenon

LEMMA PowerZero == 2 ^ 0 = 1
  BY SMT

\* The subsets with and those without n + 1 are as many.
LEMMA PowerStep ==
  ASSUME NEW n \in Nat
  PROVE  2 ^ (n + 1) = 2 * 2 ^ n
<1> DEFINE S == SUBSET (1 .. n)
           With == {T \cup {n + 1} : T \in S}
           f == [T \in S |-> T \cup {n + 1}]
<1>1. IsFiniteSet(S) /\ Cardinality(S) = 2 ^ n
  BY PowerCounts, Zenon
<1>2. Cardinality(SUBSET (1 .. n + 1)) = 2 ^ (n + 1)
  <2>1. n + 1 \in Nat
    OBVIOUS
  <2> QED
    BY <2>1, PowerCounts, Zenon
<1>3. n + 1 \notin 1 .. n /\ 1 .. n + 1 = (1 .. n) \cup {n + 1}
  OBVIOUS
<1>4. SUBSET (1 .. n + 1) = S \cup With
  <2>1. ASSUME NEW T, T \subseteq 1 .. n + 1 PROVE T \in S \cup With
    <3>1. CASE n + 1 \in T
      <4>1. T \ {n + 1} \in S /\ T = (T \ {n + 1}) \cup {n + 1}
        BY <1>3, <2>1, <3>1, Zenon
      <4> QED
        BY <4>1, Zenon
    <3>2. CASE n + 1 \notin T
      BY <1>3, <2>1, <3>2, Zenon
    <3> QED
      BY <3>1, <3>2
  <2>2. ASSUME NEW T \in S \cup With PROVE T \subseteq 1 .. n + 1
    BY <1>3, <2>2
  <2> QED
    BY <2>1, <2>2, Zenon
<1>5. S \cap With = {}
  BY <1>3
<1>6. f \in Bijection(S, With)
  <2>1. f \in [S -> With]
    OBVIOUS
  <2>2. ASSUME NEW T \in S, NEW U \in S, f[T] = f[U] PROVE T = U
    <3>1. T \cup {n + 1} = U \cup {n + 1} /\ n + 1 \notin T /\ n + 1 \notin U
      BY <1>3, <2>2
    <3>2. T = (T \cup {n + 1}) \ {n + 1} /\ U = (U \cup {n + 1}) \ {n + 1}
      BY <3>1
    <3> QED
      BY <3>1, <3>2
  <2>3. ASSUME NEW V \in With PROVE \E T \in S : f[T] = V
    OBVIOUS
  <2> HIDE DEF f, S, With
  <2> QED
    BY <2>1, <2>2, <2>3, Zenon DEF Bijection, Injection, Surjection, IsInjective
<1>7. ExistsBijection(S, With)
  BY <1>6, Zenon DEF ExistsBijection
<1> HIDE DEF f, S, With
<1>8. IsFiniteSet(With) /\ Cardinality(With) = Cardinality(S)
  BY <1>1, <1>7, FS_Bijection
<1>9. Cardinality(S \cup With)
        = Cardinality(S) + Cardinality(With) - Cardinality(S \cap With)
  BY <1>1, <1>8, FS_Union
<1>10. Cardinality(S \cap With) = 0
  BY <1>5, FS_EmptySet
<1>11. 2 ^ (n + 1) = Cardinality(S) + Cardinality(S) - 0
  BY <1>2, <1>4, <1>8, <1>9, <1>10, Zenon
<1>12. Cardinality(S) \in Nat
  BY <1>1, FS_CardinalityType
<1>13. Cardinality(S) + Cardinality(S) - 0 = 2 * Cardinality(S)
  BY <1>12
<1> QED
  BY <1>1, <1>11, <1>13, Zenon

\* Induction over the naturals, for membership in a set: the smallest natural
\* number outside of it would be the successor of a member.
LEMMA NaturalsReached ==
  ASSUME NEW S, 0 \in S, \A n \in Nat : n \in S => n + 1 \in S
  PROVE  Nat \subseteq S
<1> DEFINE T == Nat \ S
           R == OpToRel(<, Nat)
<1>1. IsWellFoundedOn(R, Nat)
  BY NatLessThanWellFounded, Zenon
<1>2. ASSUME NEW x \in Nat, NEW y \in Nat, y < x PROVE <<y, x>> \in R
  BY <1>2, SMT DEF OpToRel
<1> HIDE DEF R
<1> SUFFICES ASSUME T # {} PROVE FALSE
  OBVIOUS
<1>3. PICK x \in T : \A y \in T : ~ (<<y, x>> \in R)
  <2>1. T \subseteq Nat
    OBVIOUS
  <2> HIDE DEF T
  <2> QED
    BY <1>1, <2>1, WFMin
<1>4. x # 0 /\ x - 1 \in Nat /\ x - 1 < x
  OBVIOUS
<1>5. x - 1 \in S
  BY <1>2, <1>3, <1>4
<1> QED
  BY <1>4, <1>5

\* Powers of a sum, by that induction.
LEMMA PowerSum ==
  ASSUME NEW m \in Nat, NEW n \in Nat
  PROVE  2 ^ (m + n) = 2 ^ m * 2 ^ n
<1> DEFINE S == {k \in Nat : 2 ^ (k + n) = 2 ^ k * 2 ^ n}
<1>1. 0 \in S
  <2>1. 0 + n = n /\ 2 ^ n \in Nat /\ 1 * 2 ^ n = 2 ^ n
    BY PowerPositive
  <2>2. 2 ^ (0 + n) = 2 ^ 0 * 2 ^ n
    BY <2>1, PowerZero, Zenon
  <2> QED
    BY <2>2
<1>2. ASSUME NEW k \in Nat, k \in S PROVE k + 1 \in S
  <2>1. 2 ^ (k + n) = 2 ^ k * 2 ^ n
    BY <1>2
  <2>2. k + n \in Nat /\ (k + 1) + n = (k + n) + 1
    OBVIOUS
  <2>3. 2 ^ ((k + n) + 1) = 2 * 2 ^ (k + n)
    BY <2>2, PowerStep, Zenon
  <2>4. 2 ^ (k + 1) = 2 * 2 ^ k
    BY PowerStep
  <2>5. 2 ^ k \in Nat /\ 2 ^ n \in Nat
    BY PowerPositive
  <2>6. 2 * (2 ^ k * 2 ^ n) = (2 * 2 ^ k) * 2 ^ n
    <3> DEFINE a == 2 ^ k
               b == 2 ^ n
    <3>1. a \in Nat /\ b \in Nat
      BY <2>5
    <3> HIDE DEF a, b
    <3>2. 2 * (a * b) = (2 * a) * b
      BY <3>1
    <3> QED
      BY <3>2, Zenon DEF a, b
  <2>7. 2 ^ ((k + 1) + n) = 2 ^ (k + 1) * 2 ^ n
    BY <2>1, <2>2, <2>3, <2>4, <2>6, Zenon
  <2> QED
    BY <2>7
<1> HIDE DEF S
<1>3. m \in S
  BY <1>1, <1>2, NaturalsReached
<1> QED
  BY <1>3 DEF S

-----------------------------------------------------------------------------
(* Division and remainder.                                                 *)

LEMMA QuotientAndRest ==
  ASSUME NEW n \in Int, NEW p \in Nat \ {0}
  PROVE  n \div p \in Int /\ n % p \in 0 .. p - 1 /\ n = p * (n \div p) + (n % p)
  OBVIOUS

\* The quotient and the rest are the only ones.
LEMMA QuotientIs ==
  ASSUME NEW n \in Int, NEW p \in Nat \ {0}, NEW q \in Int, NEW r \in 0 .. p - 1,
         n = p * q + r
  PROVE  n \div p = q /\ n % p = r
<1>1. n \div p \in Int /\ n % p \in 0 .. p - 1 /\ n = p * (n \div p) + (n % p)
  OBVIOUS
<1> DEFINE d == n \div p - q
<1>2. d \in Int /\ p * d = r - (n % p)
  BY <1>1
<1> HIDE DEF d
<1>3. p * d < p /\ -p < p * d
  BY <1>1, <1>2
<1>4. d = 0
  <2>1. ~ d >= 1
    BY <1>2, <1>3
  <2>2. ~ d <= -1
    BY <1>2, <1>3
  <2> QED
    BY <1>2, <2>1, <2>2
<1> QED
  BY <1>1, <1>2, <1>4 DEF d

\* What is shifted left keeps its lowest bits, where the width leaves room.
LEMMA ShiftKeepsLow ==
  ASSUME NEW number \in Nat,
         NEW bits \in {6, 8}, NEW unit \in Nat, unit = 2 ^ bits
  PROVE  \E high \in Nat :
           /\ Shifted(number, bits) = unit * high
           /\ high % 64 = number % 64
           /\ unit * high + unit - 1 < 2 ^ IntWidth
<1> DEFINE K == 2 ^ (IntWidth - 14)
           range == 2 ^ IntWidth
           r == (number * unit) % range
<1>1. IntWidth - 14 \in Nat /\ 14 + (IntWidth - 14) = IntWidth
  BY PictureAssumption
<1>2. K \in Nat \ {0} /\ range = 16384 * K
  <2>1. 2 ^ (14 + (IntWidth - 14)) = 2 ^ 14 * K
    BY <1>1, PowerSum, Zenon
  <2>2. 2 ^ 14 = 16384
    BY SMT
  <2>3. range = 2 ^ 14 * K
    BY <1>1, <2>1, Zenon
  <2>4. K \in Nat \ {0}
    BY <1>1, PowerPositive, Zenon
  <2> HIDE DEF K, range
  <2> QED
    BY <2>2, <2>3, <2>4
<1>3. Shifted(number, bits) = r
  BY Zenon DEF Shifted
<1>4. unit = 64 \/ unit = 256
  <2>1. 2 ^ 6 = 64 /\ 2 ^ 8 = 256
    BY SMT
  <2> QED
    BY <2>1, Zenon
<1> HIDE DEF K, range
<1>5. r \in 0 .. range - 1 /\ number * unit \in Nat
  BY <1>2, <1>4
<1>6. PICK q \in Int : number * unit = range * q + r
  <2> DEFINE m == number * unit
  <2>1. range \in Nat \ {0} /\ m \in Int
    BY <1>2, <1>4
  <2> HIDE DEF m
  <2>2. m \div range \in Int /\ m = range * (m \div range) + (m % range)
    BY <2>1, QuotientAndRest
  <2>3. r = m % range
    BY DEF r, m
  <2> QED
    BY <2>2, <2>3 DEF m
<1> HIDE DEF r
<1> DEFINE g == K * q
           c == 16384 \div unit
           high == number - c * g
<1>7. g \in Int /\ range * q = 16384 * g
  BY <1>2
<1> HIDE DEF g
<1>8. /\ high \in Int /\ c \in {64, 256}
      /\ r = unit * high
      /\ high % 64 = number % 64
  <2>1. CASE unit = 64
    BY <1>5, <1>6, <1>7, <2>1
  <2>2. CASE unit = 256
    BY <1>5, <1>6, <1>7, <2>2
  <2> QED
    BY <1>4, <2>1, <2>2
<1> HIDE DEF high
<1>9. high >= 0
  BY <1>4, <1>5, <1>8
<1>10. unit * high + unit - 1 < range
  BY <1>2, <1>4, <1>5, <1>8
<1>11. unit * high + unit - 1 < 2 ^ IntWidth
  BY <1>10, Zenon DEF range
<1>12. high \in Nat /\ Shifted(number, bits) = unit * high
  BY <1>3, <1>8, <1>9
<1> QED
  BY <1>8, <1>11, <1>12

\* The fields that base64 takes, without powers.
LEMMA FieldIs ==
  ASSUME NEW number
  PROVE  /\ Field(number, 0, 6) = (number \div 1) % 64
         /\ Field(number, 2, 6) = (number \div 4) % 64
         /\ Field(number, 4, 6) = (number \div 16) % 64
         /\ Field(number, 6, 6) = (number \div 64) % 64
         /\ Field(number, 0, 8) = (number \div 1) % 256
         /\ Field(number, 2, 8) = (number \div 4) % 256
         /\ Field(number, 4, 8) = (number \div 16) % 256
<1>1. 2 ^ 0 = 1 /\ 2 ^ 2 = 4 /\ 2 ^ 4 = 16 /\ 2 ^ 6 = 64 /\ 2 ^ 8 = 256
  BY SMT
<1> QED
  BY <1>1, Zenon DEF Field

LEMMA FieldTyped ==
  ASSUME NEW number \in Nat, NEW bits \in Nat
  PROVE  /\ Field(number, bits, 6) \in 0 .. 63
         /\ Field(number, bits, 8) \in 0 .. 255
<1> DEFINE a == 2 ^ bits
           q == number \div a
<1>1. a \in Nat \ {0}
  BY PowerPositive
<1> HIDE DEF a
<1>2. q \in Nat
  BY <1>1
<1>3. Field(number, bits, 6) = q % 2 ^ 6 /\ Field(number, bits, 8) = q % 2 ^ 8
  BY Zenon DEF Field, a
<1> HIDE DEF q
<1>4. q % 64 \in 0 .. 63 /\ q % 256 \in 0 .. 255
  BY <1>2
<1>5. 2 ^ 6 = 64 /\ 2 ^ 8 = 256
  BY SMT
<1> QED
  BY <1>3, <1>4, <1>5

-----------------------------------------------------------------------------
(* The sizes of the levels.                                                *)

\* Halving as the loop does, down to one, gives the size of the next level.
LEMMA HalfOfLevel ==
  ASSUME NEW size \in Nat \ {0}, NEW l \in Nat
  PROVE  /\ LevelSize(size, l) \in 1 .. size
         /\ LevelSize(size, 0) = size
         /\ Half(LevelSize(size, l)) = LevelSize(size, l + 1)
<1> DEFINE p == 2 ^ l
           d == size \div p
           r == size % p
           c == d \div 2
           e == d % 2
<1>1. p \in Nat \ {0} /\ 2 ^ (l + 1) = 2 * p
  BY PowerPositive, PowerStep
<1> HIDE DEF p
<1>2. d \in Nat /\ r \in 0 .. p - 1 /\ size = p * d + r
  BY <1>1
<1> HIDE DEF d, r
<1>3. d <= size
  <2>1. p * d >= d
    BY <1>1, <1>2
  <2>2. p * d \in Nat /\ size = p * d + r
    BY <1>1, <1>2
  <2> QED
    BY <1>1, <1>2, <2>1, <2>2
<1>4. c \in Nat /\ e \in {0, 1} /\ d = 2 * c + e
  BY <1>2
<1> HIDE DEF c, e
<1>5. size \div (2 * p) = c
  <2> DEFINE t == p * e + r
  <2>1. t \in 0 .. 2 * p - 1
    <3>1. CASE e = 0
      BY <1>1, <1>2, <3>1
    <3>2. CASE e = 1
      BY <1>1, <1>2, <3>2
    <3> QED
      BY <1>4, <3>1, <3>2
  <2>2. size = (2 * p) * c + t
    <3>1. p * (2 * c + e) = (2 * p) * c + p * e
      BY <1>1, <1>4
    <3>2. p * d = (2 * p) * c + p * e
      BY <1>4, <3>1
    <3>3. p * d \in Int /\ p * e \in Int /\ (2 * p) * c \in Int
      BY <1>1, <1>2, <1>4
    <3> QED
      BY <1>1, <1>2, <3>2, <3>3
  <2>3. 2 * p \in Nat \ {0}
    BY <1>1
  <2> HIDE DEF t
  <2> QED
    BY <1>4, <2>1, <2>2, <2>3, QuotientIs
<1>6. LevelSize(size, l) = (IF d > 0 THEN d ELSE 1)
  BY DEF LevelSize, d, p
<1>7. LevelSize(size, l + 1) = (IF c > 0 THEN c ELSE 1)
  BY <1>1, <1>5 DEF LevelSize
<1>8. LevelSize(size, 0) = size
  BY PowerZero DEF LevelSize
<1>9. Half(LevelSize(size, l)) = LevelSize(size, l + 1)
  BY <1>2, <1>4, <1>6, <1>7 DEF Half, c
<1> QED
  BY <1>2, <1>3, <1>6, <1>8, <1>9

\* The longer side, as in MipLevels.
Longer == IF width > height THEN width ELSE height

\* There is a last level, and it is of one texel.
LEMMA LastLevel ==
  ASSUME width \in Nat \ {0}, height \in Nat \ {0}
  PROVE  /\ MipLevels \in 1 .. Longer
         /\ LevelSize(width, MipLevels - 1) = 1
         /\ LevelSize(height, MipLevels - 1) = 1
<1> DEFINE P(m, n) == 2 ^ (n - 1) <= m /\ m < 2 ^ n
           S == {m \in Nat : m = 0 \/ \E n \in 1 .. m : P(m, n)}
<1>1. 0 \in S
  OBVIOUS
<1>2. ASSUME NEW m \in Nat, m \in S PROVE m + 1 \in S
  <2>1. CASE m = 0
    <3>1. 2 ^ (1 - 1) = 1 /\ 2 ^ 1 = 2
      BY SMT
    <3>2. P(1, 1)
      BY <3>1
    <3>3. 1 \in 1 .. 1 /\ 1 \in Nat
      OBVIOUS
    <3>4. 1 \in S
      BY <3>2, <3>3, Zenon
    <3> QED
      BY <2>1, <3>4
  <2>2. CASE m # 0
    <3>1. PICK n \in 1 .. m : P(m, n)
      BY <1>2, <2>2
    <3>2. /\ n \in Nat \ {0} /\ n - 1 \in Nat
          /\ 2 ^ n \in Nat /\ 2 ^ (n - 1) \in Nat
          /\ 2 ^ (n + 1) = 2 * 2 ^ n
          /\ (n + 1) - 1 = n
      <4>1. n \in Nat \ {0} /\ n - 1 \in Nat /\ (n + 1) - 1 = n
        OBVIOUS
      <4> QED
        BY <4>1, PowerPositive, PowerStep, Zenon
    <3>3. CASE m + 1 < 2 ^ n
      <4>1. n \in 1 .. m + 1
        OBVIOUS
      <4>2. P(m + 1, n)
        BY <3>1, <3>2, <3>3
      <4> HIDE DEF P
      <4> QED
        BY <4>1, <4>2
    <3>4. CASE ~(m + 1 < 2 ^ n)
      <4>1. n + 1 \in 1 .. m + 1
        OBVIOUS
      <4>2. 2 ^ n <= m + 1 /\ m + 1 < 2 ^ (n + 1)
        BY <3>1, <3>2, <3>4
      <4>3. P(m + 1, n + 1)
        BY <3>2, <4>2, Zenon
      <4> HIDE DEF P
      <4> QED
        BY <4>1, <4>3
    <3> QED
      BY <3>3, <3>4
  <2> QED
    BY <2>1, <2>2
<1>3. Longer \in Nat \ {0} /\ width <= Longer /\ height <= Longer
      /\ (Longer = width \/ Longer = height)
  BY DEF Longer
<1> HIDE DEF S
<1>4. Longer \in S
  BY <1>1, <1>2, <1>3, NaturalsReached
<1>5. \E n \in 1 .. Longer : P(Longer, n)
  BY <1>3, <1>4 DEF S
<1>6. MipLevels = CHOOSE n \in 1 .. Longer : P(Longer, n)
  BY Zenon DEF MipLevels, Longer
<1> DEFINE M == MipLevels
<1>7. M \in 1 .. Longer /\ 2 ^ (M - 1) <= Longer /\ Longer < 2 ^ M
  BY <1>5, <1>6, Zenon
<1> DEFINE p == 2 ^ (M - 1)
<1> HIDE DEF M
<1>8. p \in Nat \ {0} /\ 2 ^ M = 2 * p
  <2>1. M - 1 \in Nat /\ (M - 1) + 1 = M
    BY <1>3, <1>7
  <2> QED
    BY <2>1, PowerPositive, PowerStep, Zenon
<1>9. ASSUME NEW size \in Nat \ {0}, size <= Longer PROVE LevelSize(size, M - 1) = 1
  <2>1. LevelSize(size, M - 1) = IF size \div p > 0 THEN size \div p ELSE 1
    BY Zenon DEF LevelSize, p
  <2>2. p \in Nat \ {0} /\ size < 2 * p
    BY <1>3, <1>7, <1>8, <1>9
  <2> HIDE DEF p
  <2>3. size \div p = 0 \/ size \div p = 1
    <3>1. CASE size < p
      <4>1. size = p * 0 + size /\ size \in 0 .. p - 1
        BY <2>2, <3>1
      <4> QED
        BY <2>2, <4>1, QuotientIs
    <3>2. CASE size >= p
      <4>1. size = p * 1 + (size - p) /\ size - p \in 0 .. p - 1
        BY <2>2, <3>2
      <4> QED
        BY <2>2, <4>1, QuotientIs
    <3> QED
      BY <2>2, <3>1, <3>2
  <2> QED
    BY <2>1, <2>3
<1> QED
  BY <1>3, <1>7, <1>9 DEF M

-----------------------------------------------------------------------------
(* Base64.                                                                 *)

\* The byte in that place, or the zero bits behind the last one.
ByteAt(i) == IF i \in DOMAIN data THEN data[i] ELSE 0

\* The six bits that character j stands for: four for every three bytes.
CharAt(j) ==
    LET first == 3 * ((j - 1) \div 4) + 1
    IN  CASE j % 4 = 1 -> ByteAt(first) \div 4
          [] j % 4 = 2 -> (ByteAt(first) % 4) * 16 + ByteAt(first + 1) \div 16
          [] j % 4 = 3 -> (ByteAt(first + 1) % 16) * 4 + ByteAt(first + 2) \div 64
          [] j % 4 = 0 -> ByteAt(first + 2) % 64

\* How many characters there are before the padding.
TextLength == (8 * Len(data) + 5) \div 6

\* Every six bits read have been written, and val still has the others.
Encoding ==
    step = "encode" =>
        /\ read \in 0 .. Len(data)
        /\ Len(text) = (8 * read) \div 6
        /\ valb = 8 * read - 6 * Len(text) - 6
        /\ \A j \in 1 .. Len(text) : text[j] = CharAt(j)
        /\ read > 0 => val % 256 = data[read]
        /\ pixels = <<>>

\* Every eight bits read have been written, and val still has the others.
Decoding ==
    step = "decode" =>
        /\ read \in 0 .. TextLength
        /\ Len(text) >= TextLength
        /\ \A j \in 1 .. TextLength : text[j] = CharAt(j)
        /\ \A j \in TextLength + 1 .. Len(text) : text[j] = Pad
        /\ Len(pixels) = (6 * read) \div 8
        /\ valb = 6 * read - 8 * Len(pixels) - 8
        /\ \A i \in 1 .. Len(pixels) : pixels[i] = data[i]
        /\ read > 0 => val % 64 = text[read]

Decoded == step \notin {"encode", "decode"} => pixels = data

-----------------------------------------------------------------------------
(* The levels.                                                             *)

FilledTo(n) ==
    \A l \in 0 .. n - 1 : filled[l] = <<LevelSize(width, l), LevelSize(height, l)>>

\* Before the loop, in it, before the last barrier and after it.
BeforeLevels ==
    step \in {"encode", "decode", "transition", "copy"} =>
        /\ mipWidth = width /\ mipHeight = height
        /\ step = "copy" => \A l \in Levels : layout[l] = "transfer_dst"

AtLevel ==
    step \in {"to_source", "blit", "to_shader"} =>
        /\ level \in 1 .. MipLevels - 1
        /\ mipWidth = LevelSize(width, level - 1)
        /\ mipHeight = LevelSize(height, level - 1)
        /\ \A l \in 0 .. level - 2 : layout[l] = "shader_read"
        /\ layout[level - 1] = IF step = "to_source" THEN "transfer_dst" ELSE "transfer_src"
        /\ \A l \in level .. MipLevels - 1 : layout[l] = "transfer_dst"
        /\ FilledTo(IF step = "to_shader" THEN level + 1 ELSE level)

BehindLevels ==
    /\ step = "last" =>
         /\ \A l \in 0 .. MipLevels - 2 : layout[l] = "shader_read"
         /\ layout[MipLevels - 1] = "transfer_dst"
    /\ step = "done" => \A l \in Levels : layout[l] = "shader_read"
    /\ step \in {"last", "done"} => FilledTo(MipLevels)

\* The inductive invariant of PicturePath.
PathInv ==
    /\ PictureTypeOK
    /\ Encoding /\ Decoding /\ Decoded
    /\ ~fault /\ BeforeLevels /\ AtLevel /\ BehindLevels

-----------------------------------------------------------------------------
(* Bits.                                                                   *)

\* The six bits of a number in each place, which ends in a byte and has the
\* lowest bits of another before it.
SixBits(number, byte, before) ==
    /\ (number \div 4) % 64 = byte \div 4
    /\ (number \div 16) % 64 = (before % 4) * 16 + byte \div 16
    /\ (number \div 64) % 64 = (before % 16) * 4 + byte \div 64
    /\ (number \div 1) % 64 = byte % 64

\* Those are the bits of a number that had room for both.
LEMMA EncodedBits ==
  ASSUME NEW high \in Nat, NEW byte \in 0 .. 255, NEW before \in 0 .. 255,
         high % 64 = before % 64
  PROVE  SixBits(256 * high + byte, byte, before)
<1>1. ((256 * high + byte) \div 4) % 64 = byte \div 4
  OBVIOUS
<1>2. ((256 * high + byte) \div 1) % 64 = byte % 64
  OBVIOUS
<1>3. PICK a \in Int, b \in 0 .. 63 : high = 64 * a + b /\ b = before % 64
  OBVIOUS
<1>4. (256 * high + byte) \div 16 = 1024 * a + 16 * b + byte \div 16
  BY <1>3
<1>5. (256 * high + byte) \div 64 = 256 * a + 4 * b + byte \div 64
  BY <1>3
<1>6. ((256 * high + byte) \div 16) % 64 = (before % 4) * 16 + byte \div 16
  BY <1>3, <1>4
<1>7. ((256 * high + byte) \div 64) % 64 = (before % 16) * 4 + byte \div 64
  BY <1>3, <1>5
<1> QED
  BY <1>1, <1>2, <1>6, <1>7 DEF SixBits

\* The eight bits that end in the character read last, behind those kept from
\* the characters before, for the three bytes of a group.
EightBits(high, first, second, third) ==
    /\ high % 64 = first \div 4 =>
         ((64 * high + ((first % 4) * 16 + second \div 16)) \div 16) % 256 = first
    /\ high % 64 = (first % 4) * 16 + second \div 16 =>
         ((64 * high + ((second % 16) * 4 + third \div 64)) \div 4) % 256 = second
    /\ high % 64 = (second % 16) * 4 + third \div 64 =>
         ((64 * high + (third % 64)) \div 1) % 256 = third

LEMMA DecodedBits ==
  ASSUME NEW high \in Nat, NEW first \in 0 .. 255, NEW second \in 0 .. 255,
         NEW third \in 0 .. 255
  PROVE  EightBits(high, first, second, third)
<1>1. PICK a \in Int, b \in 0 .. 63 : high = 64 * a + b /\ b = high % 64
  OBVIOUS
<1>2. ASSUME b = first \div 4
      PROVE  ((64 * high + ((first % 4) * 16 + second \div 16)) \div 16) % 256 = first
  <2>1. (64 * high + ((first % 4) * 16 + second \div 16)) \div 16
          = 256 * a + 4 * b + (first % 4)
    BY <1>1
  <2> QED
    BY <1>1, <1>2, <2>1
<1>3. ASSUME b = (first % 4) * 16 + second \div 16
      PROVE  ((64 * high + ((second % 16) * 4 + third \div 64)) \div 4) % 256 = second
  <2>1. (64 * high + ((second % 16) * 4 + third \div 64)) \div 4
          = 1024 * a + 16 * b + (second % 16)
    BY <1>1
  <2> QED
    BY <1>1, <1>3, <2>1
<1>4. ASSUME b = (second % 16) * 4 + third \div 64
      PROVE  ((64 * high + (third % 64)) \div 1) % 256 = third
  BY <1>1, <1>4
<1> QED
  BY <1>1, <1>2, <1>3, <1>4 DEF EightBits

\* A byte has eight bits, and behind the last one there are zeroes.
LEMMA BytesTyped ==
  ASSUME data \in Seq(Bytes), NEW i \in Int
  PROVE  /\ ByteAt(i) \in 0 .. 255
         /\ i \in 1 .. Len(data) => ByteAt(i) = data[i] /\ data[i] \in 0 .. 255
         /\ i > Len(data) => ByteAt(i) = 0
<1>1. DOMAIN data = 1 .. Len(data) /\ Len(data) \in Nat
      /\ \A k \in 1 .. Len(data) : data[k] \in Bytes
  OBVIOUS
<1>2. CASE i \in 1 .. Len(data)
  <2>1. ByteAt(i) = data[i] /\ data[i] \in 0 .. 255
    BY <1>1, <1>2, PictureAssumption DEF ByteAt
  <2> QED
    BY <1>1, <1>2, <2>1
<1>3. CASE i \notin 1 .. Len(data)
  <2>1. ByteAt(i) = 0
    BY <1>1, <1>3 DEF ByteAt
  <2> QED
    BY <1>3, <2>1
<1> QED
  BY <1>2, <1>3

\* A group of four characters.
LEMMA CharGroup ==
  ASSUME data \in Seq(Bytes), NEW q \in Nat
  PROVE  /\ CharAt(4 * q + 1) = ByteAt(3 * q + 1) \div 4
         /\ CharAt(4 * q + 2) = (ByteAt(3 * q + 1) % 4) * 16 + ByteAt(3 * q + 2) \div 16
         /\ CharAt(4 * q + 3) = (ByteAt(3 * q + 2) % 16) * 4 + ByteAt(3 * q + 3) \div 64
         /\ CharAt(4 * q + 4) = ByteAt(3 * q + 3) % 64
<1>1. /\ (4 * q + 1) % 4 = 1 /\ 3 * ((4 * q + 1 - 1) \div 4) + 1 = 3 * q + 1
      /\ (4 * q + 2) % 4 = 2 /\ 3 * ((4 * q + 2 - 1) \div 4) + 1 = 3 * q + 1
      /\ (4 * q + 3) % 4 = 3 /\ 3 * ((4 * q + 3 - 1) \div 4) + 1 = 3 * q + 1
      /\ (4 * q + 4) % 4 = 0 /\ 3 * ((4 * q + 4 - 1) \div 4) + 1 = 3 * q + 1
      /\ (3 * q + 1) + 1 = 3 * q + 2 /\ (3 * q + 1) + 2 = 3 * q + 3
  OBVIOUS
<1> DEFINE First(j) == 3 * ((j - 1) \div 4) + 1
<1>0. ASSUME NEW j
      PROVE  /\ j % 4 = 1 => CharAt(j) = ByteAt(First(j)) \div 4
             /\ j % 4 = 2 => CharAt(j) = (ByteAt(First(j)) % 4) * 16
                                           + ByteAt(First(j) + 1) \div 16
             /\ j % 4 = 3 => CharAt(j) = (ByteAt(First(j) + 1) % 16) * 4
                                           + ByteAt(First(j) + 2) \div 64
             /\ j % 4 = 0 => CharAt(j) = ByteAt(First(j) + 2) % 64
  BY DEF CharAt
<1>2. CharAt(4 * q + 1) = ByteAt(3 * q + 1) \div 4
  BY <1>0, <1>1
<1>3. CharAt(4 * q + 2) = (ByteAt(3 * q + 1) % 4) * 16 + ByteAt(3 * q + 2) \div 16
  BY <1>0, <1>1
<1>4. CharAt(4 * q + 3) = (ByteAt(3 * q + 2) % 16) * 4 + ByteAt(3 * q + 3) \div 64
  BY <1>0, <1>1
<1>5. CharAt(4 * q + 4) = ByteAt(3 * q + 3) % 64
  BY <1>0, <1>1
<1> QED
  BY <1>2, <1>3, <1>4, <1>5

\* Every character is one of the 64.
LEMMA CharsTyped ==
  ASSUME data \in Seq(Bytes), NEW j \in Nat \ {0}
  PROVE  CharAt(j) \in Chars
<1>1. PICK q \in Nat : j \in {4 * q + 1, 4 * q + 2, 4 * q + 3, 4 * q + 4}
  <2>1. (j - 1) \div 4 \in Nat
        /\ j \in {4 * ((j - 1) \div 4) + 1, 4 * ((j - 1) \div 4) + 2,
                  4 * ((j - 1) \div 4) + 3, 4 * ((j - 1) \div 4) + 4}
    OBVIOUS
  <2> QED
    BY <2>1
<1>2. /\ ByteAt(3 * q + 1) \in 0 .. 255
      /\ ByteAt(3 * q + 2) \in 0 .. 255
      /\ ByteAt(3 * q + 3) \in 0 .. 255
  BY BytesTyped
<1> DEFINE a == ByteAt(3 * q + 1)
           b == ByteAt(3 * q + 2)
           c == ByteAt(3 * q + 3)
<1>3. /\ CharAt(4 * q + 1) = a \div 4
      /\ CharAt(4 * q + 2) = (a % 4) * 16 + b \div 16
      /\ CharAt(4 * q + 3) = (b % 16) * 4 + c \div 64
      /\ CharAt(4 * q + 4) = c % 64
  BY CharGroup, Zenon
<1>4. a \in 0 .. 255 /\ b \in 0 .. 255 /\ c \in 0 .. 255
  BY <1>2
<1> HIDE DEF a, b, c
<1>5. /\ a \div 4 \in 0 .. 63 /\ (a % 4) * 16 + b \div 16 \in 0 .. 63
      /\ (b % 16) * 4 + c \div 64 \in 0 .. 63 /\ c % 64 \in 0 .. 63
  BY <1>4
<1>6. CASE j = 4 * q + 1
  <2>1. CharAt(j) = a \div 4
    BY <1>3, <1>6, Zenon
  <2> QED
    BY <1>5, <2>1, SMT DEF Chars
<1>7. CASE j = 4 * q + 2
  <2>1. CharAt(j) = (a % 4) * 16 + b \div 16
    BY <1>3, <1>7, Zenon
  <2> QED
    BY <1>5, <2>1, SMT DEF Chars
<1>8. CASE j = 4 * q + 3
  <2>1. CharAt(j) = (b % 16) * 4 + c \div 64
    BY <1>3, <1>8, Zenon
  <2> QED
    BY <1>5, <2>1, SMT DEF Chars
<1>9. CASE j = 4 * q + 4
  <2>1. CharAt(j) = c % 64
    BY <1>3, <1>9, Zenon
  <2> QED
    BY <1>5, <2>1, SMT DEF Chars
<1> QED
  BY <1>1, <1>6, <1>7, <1>8, <1>9

-----------------------------------------------------------------------------
(* The rounds of encode.                                                   *)

\* Where the loops are in group q, when r of the input have been read, n of the
\* output written, and v bits are kept.
EncodeAt(q, r, n, v) ==
    \/ r = 3 * q /\ n = 4 * q /\ v = -6
    \/ r = 3 * q + 1 /\ n = 4 * q + 1 /\ v = -4
    \/ r = 3 * q + 2 /\ n = 4 * q + 2 /\ v = -2

DecodeAt(q, r, n, v) ==
    \/ r = 4 * q /\ n = 3 * q /\ v = -8
    \/ r = 4 * q + 1 /\ n = 3 * q /\ v = -2
    \/ r = 4 * q + 2 /\ n = 3 * q + 1 /\ v = -4
    \/ r = 4 * q + 3 /\ n = 3 * q + 2 /\ v = -6

\* Whatever was read, the loop stands in one of these places of a group.
LEMMA EncodePlace ==
  ASSUME NEW r \in Nat, NEW n \in Nat, NEW v, n = (8 * r) \div 6, v = 8 * r - 6 * n - 6
  PROVE  \E q \in Nat : EncodeAt(q, r, n, v)
<1> DEFINE q == r \div 3
<1>1. q \in Nat /\ r \in {3 * q, 3 * q + 1, 3 * q + 2}
  OBVIOUS
<1> HIDE DEF q
<1>2. EncodeAt(q, r, n, v)
  BY <1>1 DEF EncodeAt
<1> QED
  BY <1>1, <1>2

LEMMA DecodePlace ==
  ASSUME NEW r \in Nat, NEW n \in Nat, NEW v, n = (6 * r) \div 8, v = 6 * r - 8 * n - 8
  PROVE  \E q \in Nat : DecodeAt(q, r, n, v)
<1> DEFINE q == r \div 4
<1>1. q \in Nat /\ r \in {4 * q, 4 * q + 1, 4 * q + 2, 4 * q + 3}
  OBVIOUS
<1> HIDE DEF q
<1>2. DecodeAt(q, r, n, v)
  BY <1>1 DEF DecodeAt
<1> QED
  BY <1>1, <1>2

\* They depend on the bytes alone.
LEMMA SameChars ==
  ASSUME data' = data
  PROVE  /\ TextLength' = TextLength
         /\ \A j : CharAt(j)' = CharAt(j)
  BY DEF TextLength, CharAt, ByteAt

\* What the inner loop appends: six bits at a time.
Fields(number, high, more) == [i \in 1 .. more |-> Field(number, high - 6 * (i - 1), 6)]

\* out is chars and those fields behind them.
Appended(out, chars, number, high, more) ==
    /\ out \in Seq(Chars \cup {Pad})
    /\ Len(out) = Len(chars) + more
    /\ \A j \in 1 .. Len(chars) : out[j] = chars[j]
    /\ \A i \in 1 .. more : out[Len(chars) + i] = Field(number, high - 6 * (i - 1), 6)

LEMMA FieldsAppended ==
  ASSUME NEW number \in Nat, NEW high \in Nat, NEW more \in Nat, high - 6 * (more - 1) \in Nat,
         NEW chars \in Seq(Chars \cup {Pad})
  PROVE  Appended(chars \o Fields(number, high, more), chars, number, high, more)
<1> DEFINE fields == Fields(number, high, more)
<1>1. ASSUME NEW i \in 1 .. more
      PROVE  Field(number, high - 6 * (i - 1), 6) \in Chars
  <2>1. high - 6 * (i - 1) \in Nat
    OBVIOUS
  <2> QED
    BY <2>1, FieldTyped DEF Chars
<1>2. fields \in [1 .. more -> Chars \cup {Pad}]
  BY <1>1 DEF Fields
<1>3. fields \in Seq(Chars \cup {Pad}) /\ Len(fields) = more
      /\ \A i \in 1 .. more : fields[i] = Field(number, high - 6 * (i - 1), 6)
  BY <1>2 DEF Fields
<1> HIDE DEF fields
<1>4. /\ chars \o fields \in Seq(Chars \cup {Pad})
      /\ Len(chars \o fields) = Len(chars) + more
      /\ \A j \in 1 .. Len(chars) + more :
           (chars \o fields)[j] = IF j <= Len(chars) THEN chars[j] ELSE fields[j - Len(chars)]
  <2>1. /\ chars \o fields \in Seq(Chars \cup {Pad})
        /\ Len(chars \o fields) = Len(chars) + Len(fields)
        /\ \A j \in 1 .. Len(chars) + Len(fields) :
             (chars \o fields)[j] = IF j <= Len(chars) THEN chars[j] ELSE fields[j - Len(chars)]
    BY <1>3, ConcatProperties
  <2> QED
    BY <1>3, <2>1
<1>5. Len(chars) \in Nat
  OBVIOUS
<1>6. ASSUME NEW j \in 1 .. Len(chars) PROVE (chars \o fields)[j] = chars[j]
  BY <1>4, <1>5
<1>7. ASSUME NEW i \in 1 .. more
      PROVE  (chars \o fields)[Len(chars) + i] = Field(number, high - 6 * (i - 1), 6)
  <2>1. Len(chars) + i \in 1 .. Len(chars) + more /\ ~(Len(chars) + i <= Len(chars))
        /\ (Len(chars) + i) - Len(chars) = i
    BY <1>5
  <2>2. (chars \o fields)[Len(chars) + i] = fields[i]
    BY <1>4, <2>1
  <2> QED
    BY <1>3, <2>2
<1> QED
  BY <1>4, <1>6, <1>7 DEF fields, Appended

\* A round of encode: the bits kept are those of the bytes, however many were
\* shifted out of val before.
LEMMA EncodeByteKeeps ==
  ASSUME PathInv, EncodeByte
  PROVE  PictureTypeOK' /\ Encoding'
<1>0. /\ step = "encode" /\ data \in Seq(Bytes) /\ text \in Seq(Chars \cup {Pad})
      /\ \A j \in 1 .. Len(text) : text[j] = CharAt(j)
      /\ read > 0 => val % 256 = data[read]
      /\ pixels = <<>>
  BY DEF PathInv, PictureTypeOK, Encoding, EncodeByte
<1>1. /\ read \in Nat /\ Len(data) \in Nat /\ read < Len(data)
      /\ val \in Nat /\ Len(text) \in Nat
  BY DEF PathInv, PictureTypeOK, Encoding, EncodeByte
<1>P. /\ Len(text) = (8 * read) \div 6
      /\ valb = 8 * read - 6 * Len(text) - 6
  BY DEF PathInv, Encoding, EncodeByte
<1> DEFINE byte == data[read + 1]
           before == IF read > 0 THEN data[read] ELSE 0
           bits == valb + 8
           more == bits \div 6 + 1
           fields == Fields(val', bits, more)
<1>2. /\ byte \in 0 .. 255 /\ byte = ByteAt(read + 1)
      /\ before \in 0 .. 255
      /\ read > 0 => before = ByteAt(read)
  <2>1. read + 1 \in 1 .. Len(data) /\ read + 1 \in Int /\ read \in Int
    BY <1>1
  <2>2. read > 0 => read \in 1 .. Len(data)
    BY <1>1
  <2>3. /\ byte \in 0 .. 255 /\ byte = ByteAt(read + 1)
    BY <1>0, <2>1, BytesTyped
  <2>4. CASE read > 0
    <3>1. before = ByteAt(read) /\ before \in 0 .. 255
      BY <1>0, <2>1, <2>2, <2>4, BytesTyped
    <3> QED
      BY <2>3, <3>1, Zenon
  <2>5. CASE ~(read > 0)
    <3>1. before = 0
      BY <2>5
    <3> HIDE DEF before, byte
    <3> QED
      BY <2>3, <2>5, <3>1
  <2> QED
    BY <2>4, <2>5
<1>3. PICK high \in Nat :
        /\ Shifted(val, 8) = 256 * high
        /\ high % 64 = val % 64
        /\ 256 * high + 256 - 1 < 2 ^ IntWidth
  <2>1. 256 = 2 ^ 8
    BY SMT
  <2>2. 8 \in {6, 8} /\ 256 \in Nat
    OBVIOUS
  <2> QED
    BY <1>1, <2>1, <2>2, ShiftKeepsLow, Zenon
<1>4. /\ val' = 256 * high + byte
      /\ read' = read + 1
      /\ text' = text \o fields
      /\ valb' = bits - 6 * more
      /\ UNCHANGED <<step, data, pixels, imageVars>>
  BY <1>3 DEF EncodeByte, Fields
<1>5. val' \in Nat /\ val' % 256 = byte /\ val' \in 0 .. 2 ^ IntWidth - 1
  <2> DEFINE range == 2 ^ IntWidth
  <2>0. val' = 256 * high + byte
    BY <1>4
  <2>1. range \in Nat /\ 256 * high + 256 - 1 < range
    BY <1>3, PowerPositive, PictureAssumption
  <2> HIDE DEF range
  <2> HIDE DEF byte
  <2>2. val' \in Nat /\ val' % 256 = byte /\ val' \in 0 .. range - 1
    BY <1>2, <2>1, <2>0
  <2> QED
    BY <2>2 DEF range
<1> DEFINE kept == IF read > 0 THEN before ELSE high % 64
<1>6. kept \in 0 .. 255 /\ high % 64 = kept % 64
  <2>1. high % 64 \in 0 .. 63 /\ (high % 64) % 64 = high % 64
    OBVIOUS
  <2>2. CASE read > 0
    <3>1. val % 256 = before
      BY <1>0, <2>2
    <3>2. val % 64 = (val % 256) % 64
      BY <1>1
    <3>3. high % 64 = before % 64
      BY <1>3, <3>1, <3>2, Zenon
    <3> QED
      BY <1>2, <2>2, <3>3
  <2> QED
    BY <2>1, <2>2
<1> HIDE DEF kept
<1>7. SixBits(val', byte, kept)
  <2> HIDE DEF byte
  <2>1. SixBits(256 * high + byte, byte, kept)
    BY <1>2, <1>6, EncodedBits
  <2>2. val' = 256 * high + byte
    BY <1>4
  <2> QED
    BY <2>1, <2>2, Zenon
<1>a. PICK q \in Nat : EncodeAt(q, read, Len(text), valb)
  BY <1>1, <1>P, EncodePlace, Zenon
<1>8. \/ read = 3 * q /\ Len(text) = 4 * q /\ valb = -6
      \/ read = 3 * q + 1 /\ Len(text) = 4 * q + 1 /\ valb = -4
      \/ read = 3 * q + 2 /\ Len(text) = 4 * q + 2 /\ valb = -2
  BY <1>a, Zenon DEF EncodeAt
<1>9. /\ bits \in Nat /\ more \in Nat /\ bits - 6 * (more - 1) \in Nat
      /\ Len(text) + more = (8 * (read + 1)) \div 6
      /\ bits - 6 * more = 8 * (read + 1) - 6 * (Len(text) + more) - 6
      /\ bits - 6 * more \in -8 .. 7
  <2>1. CASE valb = -6
    BY <1>8, <2>1
  <2>2. CASE valb = -4
    BY <1>8, <2>2
  <2>3. CASE valb = -2
    BY <1>8, <2>3
  <2> QED
    BY <1>8, <2>1, <2>2, <2>3
<1>10. /\ text' \in Seq(Chars \cup {Pad})
       /\ Len(text') = Len(text) + more
       /\ \A j \in 1 .. Len(text) : text'[j] = text[j]
       /\ \A i \in 1 .. more : text'[Len(text) + i] = Field(val', bits - 6 * (i - 1), 6)
  <2>0. bits \in Nat /\ more \in Nat /\ bits - 6 * (more - 1) \in Nat /\ val' \in Nat
    BY <1>5, <1>9
  <2>01. text \in Seq(Chars \cup {Pad})
    BY <1>0
  <2> HIDE DEF bits, more
  <2>1. Appended(text \o fields, text, val', bits, more)
    BY <2>0, <2>01, FieldsAppended, Zenon
  <2> HIDE DEF fields
  <2> QED
    BY <1>4, <2>1 DEF Appended
<1>11. ASSUME NEW i \in 1 .. more PROVE text'[Len(text) + i] = CharAt(Len(text) + i)
  <2>1. /\ CharAt(4 * q + 1) = ByteAt(3 * q + 1) \div 4
        /\ CharAt(4 * q + 2) = (ByteAt(3 * q + 1) % 4) * 16 + ByteAt(3 * q + 2) \div 16
        /\ CharAt(4 * q + 3) = (ByteAt(3 * q + 2) % 16) * 4 + ByteAt(3 * q + 3) \div 64
        /\ CharAt(4 * q + 4) = ByteAt(3 * q + 3) % 64
    BY <1>0, CharGroup
  <2>2. text'[Len(text) + i] = Field(val', bits - 6 * (i - 1), 6)
    BY <1>10
  <2>3. CASE valb = -6
    <3>1. i = 1 /\ bits - 6 * (i - 1) = 2 /\ read = 3 * q /\ Len(text) = 4 * q
      BY <1>8, <2>3
    <3>2. Field(val', 2, 6) = byte \div 4
      BY <1>7, FieldIs DEF SixBits
    <3>3. byte = ByteAt(3 * q + 1)
      BY <1>2, <3>1
    <3> QED
      BY <2>1, <2>2, <3>1, <3>2, <3>3
  <2>4. CASE valb = -4
    <3>1. i = 1 /\ bits - 6 * (i - 1) = 4 /\ read = 3 * q + 1 /\ Len(text) = 4 * q + 1
          /\ Len(text) + i = 4 * q + 2 /\ read > 0 /\ read + 1 = 3 * q + 2
      BY <1>8, <2>4
    <3>2. Field(val', 4, 6) = (before % 4) * 16 + byte \div 16
      BY <1>7, <3>1, FieldIs DEF SixBits, kept
    <3>3. byte = ByteAt(3 * q + 2) /\ before = ByteAt(3 * q + 1)
      BY <1>2, <3>1
    <3> QED
      BY <2>1, <2>2, <3>1, <3>2, <3>3
  <2>5. CASE valb = -2
    <3>1. read = 3 * q + 2 /\ Len(text) = 4 * q + 2 /\ read > 0 /\ read + 1 = 3 * q + 3
          /\ i \in {1, 2}
      BY <1>8, <2>5
    <3>2. byte = ByteAt(3 * q + 3) /\ before = ByteAt(3 * q + 2)
      BY <1>2, <3>1
    <3>3. CASE i = 1
      <4>1. Field(val', 6, 6) = (before % 16) * 4 + byte \div 64
        BY <1>7, <3>1, FieldIs DEF SixBits, kept
      <4>2. bits - 6 * (i - 1) = 6 /\ Len(text) + i = 4 * q + 3
        BY <2>5, <3>1, <3>3
      <4> QED
        BY <2>1, <2>2, <3>2, <4>1, <4>2
    <3>4. CASE i = 2
      <4>1. Field(val', 0, 6) = byte % 64
        BY <1>7, FieldIs DEF SixBits
      <4>2. bits - 6 * (i - 1) = 0 /\ Len(text) + i = 4 * q + 4
        BY <2>5, <3>1, <3>4
      <4> QED
        BY <2>1, <2>2, <3>2, <4>1, <4>2
    <3> QED
      BY <3>1, <3>3, <3>4
  <2> QED
    BY <1>8, <2>3, <2>4, <2>5
<1>12. PictureTypeOK'
  <2>1. /\ read' \in Nat /\ val' \in 0 .. 2 ^ IntWidth - 1 /\ valb' \in -8 .. 7
        /\ text' \in Seq(Chars \cup {Pad})
    BY <1>1, <1>4, <1>5, <1>9, <1>10
  <2> QED
    BY <1>4, <2>1 DEF PathInv, PictureTypeOK, imageVars, Levels, MipLevels
<1>13. Encoding'
  <2>1. \A j : CharAt(j)' = CharAt(j)
    BY <1>4, SameChars
  <2>2. ASSUME NEW j \in 1 .. Len(text') PROVE text'[j] = CharAt(j)
    <3>1. CASE j <= Len(text)
      BY <1>0, <1>1, <1>10, <3>1
    <3>2. CASE j > Len(text)
      <4> HIDE DEF more
      <4>1. j - Len(text) \in 1 .. more /\ Len(text) + (j - Len(text)) = j
        BY <1>1, <1>9, <1>10, <3>2
      <4> QED
        BY <1>11, <4>1
    <3> QED
      BY <1>1, <3>1, <3>2
  <2>3. /\ read' \in 0 .. Len(data')
        /\ Len(text') = (8 * read') \div 6
        /\ valb' = 8 * read' - 6 * Len(text') - 6
    <3>1. /\ read' = read + 1 /\ data' = data /\ valb' = bits - 6 * more
          /\ Len(text') = Len(text) + more
      BY <1>4, <1>10
    <3> HIDE DEF bits, more
    <3> QED
      BY <1>1, <1>9, <3>1
  <2>4. val' % 256 = data'[read'] /\ pixels' = <<>>
    BY <1>0, <1>4, <1>5
  <2>5. \A j \in 1 .. Len(text') : text'[j] = CharAt(j)'
    BY <2>1, <2>2
  <2> QED
    BY <2>3, <2>4, <2>5 DEF Encoding
<1> QED
  BY <1>12, <1>13

\* All of the characters, and no padding yet.
Whole(out) ==
    /\ out \in Seq(Chars \cup {Pad})
    /\ Len(out) = TextLength
    /\ \A j \in 1 .. TextLength : out[j] = CharAt(j)

\* The padding leaves the characters as they are.
LEMMA PaddedKeeps ==
  ASSUME NEW chars, Whole(chars), TextLength \in Nat
  PROVE  /\ Padded(chars) \in Seq(Chars \cup {Pad})
         /\ Len(Padded(chars)) \in Nat /\ Len(Padded(chars)) >= TextLength
         /\ \A j \in 1 .. TextLength : Padded(chars)[j] = CharAt(j)
         /\ \A j \in TextLength + 1 .. Len(Padded(chars)) : Padded(chars)[j] = Pad
<1> DEFINE n == (4 - (Len(chars) % 4)) % 4
           pads == [i \in 1 .. n |-> Pad]
           T == TextLength
<1>1. T \in Nat /\ Len(chars) = T /\ chars \in Seq(Chars \cup {Pad})
  BY DEF Whole
<1>2. n \in Nat
  BY <1>1
<1>3. Padded(chars) = chars \o pads
  BY DEF Padded
<1> HIDE DEF n, T
<1>4. pads \in Seq(Chars \cup {Pad}) /\ Len(pads) = n /\ \A i \in 1 .. n : pads[i] = Pad
  BY <1>2
<1> HIDE DEF pads
<1>5. /\ chars \o pads \in Seq(Chars \cup {Pad})
      /\ Len(chars \o pads) = T + n
      /\ \A j \in 1 .. T + n :
           (chars \o pads)[j] = IF j <= T THEN chars[j] ELSE pads[j - T]
  BY <1>1, <1>4, ConcatProperties
<1>6. ASSUME NEW j \in 1 .. T PROVE (chars \o pads)[j] = CharAt(j)
  <2>1. j \in 1 .. T + n /\ j <= T
    BY <1>1, <1>2
  <2>2. chars[j] = CharAt(j)
    BY DEF Whole, T
  <2> QED
    BY <1>5, <2>1, <2>2
<1>7. ASSUME NEW j \in T + 1 .. T + n PROVE (chars \o pads)[j] = Pad
  <2>1. j \in 1 .. T + n /\ ~(j <= T) /\ j - T \in 1 .. n
    BY <1>1, <1>2
  <2> QED
    BY <1>4, <1>5, <2>1
<1>8. Len(chars \o pads) \in Nat /\ Len(chars \o pads) >= T
  BY <1>1, <1>2, <1>5
<1> QED
  BY <1>3, <1>5, <1>6, <1>7, <1>8 DEF T

\* What the code adds to text before the padding.
Rest == IF valb > -6 THEN Append(text, Field(Shifted(val, 8), valb + 8, 6)) ELSE text

\* Behind the loop, the bits that are left make the last character.
LEMMA RestIsWhole ==
  ASSUME PathInv, EncodeEnd
  PROVE  TextLength \in Nat /\ Whole(Rest)
<1>0. /\ data \in Seq(Bytes) /\ text \in Seq(Chars \cup {Pad})
      /\ \A j \in 1 .. Len(text) : text[j] = CharAt(j)
      /\ read > 0 => val % 256 = data[read]
  BY DEF PathInv, PictureTypeOK, Encoding, EncodeEnd
<1>1. /\ read \in Nat /\ Len(data) \in Nat /\ read = Len(data)
      /\ val \in Nat /\ Len(text) \in Nat
  BY DEF PathInv, PictureTypeOK, Encoding, EncodeEnd
<1>2. /\ Len(text) = (8 * read) \div 6
      /\ valb = 8 * read - 6 * Len(text) - 6
  BY DEF PathInv, Encoding, EncodeEnd
<1>3. TextLength \in Nat /\ TextLength = (8 * read + 5) \div 6
  BY <1>1 DEF TextLength
<1>4. PICK q \in Nat : EncodeAt(q, read, Len(text), valb)
  BY <1>1, <1>2, EncodePlace, Zenon
<1>5. \/ read = 3 * q /\ Len(text) = 4 * q /\ valb = -6
      \/ read = 3 * q + 1 /\ Len(text) = 4 * q + 1 /\ valb = -4
      \/ read = 3 * q + 2 /\ Len(text) = 4 * q + 2 /\ valb = -2
  BY <1>4, Zenon DEF EncodeAt
<1>6. CASE valb = -6
  <2>1. TextLength = Len(text)
    BY <1>3, <1>5, <1>6
  <2>2. Rest = text
    BY <1>6 DEF Rest
  <2> QED
    BY <1>0, <1>3, <2>1, <2>2 DEF Whole
<1>7. CASE valb # -6
  <2> DEFINE last == Field(Shifted(val, 8), valb + 8, 6)
             before == data[read]
             place == Len(text) + 1
  <2>1. read > 0 /\ TextLength = place /\ read \in 1 .. Len(data) /\ read \in Int
    BY <1>1, <1>3, <1>5, <1>7
  <2>2. before = ByteAt(read) /\ before \in 0 .. 255 /\ val % 256 = before
    BY <1>0, <2>1, BytesTyped
  <2>3. PICK high \in Nat :
          /\ Shifted(val, 8) = 256 * high
          /\ high % 64 = val % 64
          /\ 256 * high + 256 - 1 < 2 ^ IntWidth
    <3>1. 256 = 2 ^ 8
      BY SMT
    <3>2. 8 \in {6, 8} /\ 256 \in Nat
      OBVIOUS
    <3> QED
      BY <1>1, <3>1, <3>2, ShiftKeepsLow, Zenon
  <2> HIDE DEF before
  <2>4. high % 64 = before % 64
    <3>1. val % 64 = (val % 256) % 64
      BY <1>1
    <3> QED
      BY <2>2, <2>3, <3>1
  <2>5. SixBits(Shifted(val, 8), 0, before)
    <3>1. 0 \in 0 .. 255
      OBVIOUS
    <3>2. SixBits(256 * high + 0, 0, before)
      BY <2>2, <2>4, <3>1, EncodedBits
    <3>3. 256 * high + 0 = 256 * high
      BY <2>3
    <3> QED
      BY <2>3, <3>2, <3>3, Zenon
  <2>6. /\ CharAt(4 * q + 2) = (ByteAt(3 * q + 1) % 4) * 16 + ByteAt(3 * q + 2) \div 16
        /\ CharAt(4 * q + 3) = (ByteAt(3 * q + 2) % 16) * 4 + ByteAt(3 * q + 3) \div 64
    BY <1>0, CharGroup
  <2>7. read + 1 \in Int /\ ByteAt(read + 1) = 0
    <3>1. read + 1 \in Int /\ read + 1 > Len(data)
      BY <1>1
    <3> QED
      BY <1>0, <3>1, BytesTyped
  <2>8. last = CharAt(place)
    <3>1. CASE valb = -4
      <4>1. valb + 8 = 4 /\ place = 4 * q + 2 /\ read = 3 * q + 1 /\ read + 1 = 3 * q + 2
        BY <1>5, <3>1
      <4>2. last = (before % 4) * 16 + 0 \div 16
        BY <2>5, <4>1, FieldIs DEF SixBits
      <4> QED
        BY <2>2, <2>6, <2>7, <4>1, <4>2
    <3>2. CASE valb = -2
      <4>1. valb + 8 = 6 /\ place = 4 * q + 3 /\ read = 3 * q + 2 /\ read + 1 = 3 * q + 3
        BY <1>5, <3>2
      <4>2. last = (before % 16) * 4 + 0 \div 64
        BY <2>5, <4>1, FieldIs DEF SixBits
      <4> QED
        BY <2>2, <2>6, <2>7, <4>1, <4>2
    <3> QED
      BY <1>5, <1>7, <3>1, <3>2
  <2>9. last \in Chars \cup {Pad}
    <3>1. place \in Nat \ {0}
      BY <1>1
    <3> HIDE DEF last, place
    <3> QED
      BY <1>0, <2>8, <3>1, CharsTyped
  <2>10. Rest = Append(text, last)
    BY <1>5, <1>7 DEF Rest
  <2> HIDE DEF last
  <2>11. /\ Append(text, last) \in Seq(Chars \cup {Pad})
         /\ Len(Append(text, last)) = Len(text) + 1
         /\ \A j \in 1 .. Len(text) : Append(text, last)[j] = text[j]
         /\ Append(text, last)[Len(text) + 1] = last
    BY <1>0, <2>9, AppendProperties
  <2>12. ASSUME NEW j \in 1 .. TextLength PROVE Rest[j] = CharAt(j)
    <3>1. j \in 1 .. Len(text) \/ j = Len(text) + 1
      BY <1>1, <2>1
    <3> QED
      BY <1>0, <2>8, <2>10, <2>11, <3>1
  <2> QED
    BY <1>3, <2>1, <2>10, <2>11, <2>12 DEF Whole
<1> QED
  BY <1>6, <1>7

LEMMA EncodeEndKeeps ==
  ASSUME PathInv, EncodeEnd
  PROVE  PictureTypeOK' /\ Decoding'
<1> DEFINE T == TextLength
<1>1. /\ text' = Padded(Rest) /\ step' = "decode"
      /\ read' = 0 /\ val' = 0 /\ valb' = -8
      /\ UNCHANGED <<data, pixels, imageVars>>
  BY DEF EncodeEnd, Rest
<1>2. pixels = <<>>
  BY DEF PathInv, Encoding, EncodeEnd
<1>3. T \in Nat /\ Whole(Rest)
  BY RestIsWhole
<1>4. /\ Padded(Rest) \in Seq(Chars \cup {Pad})
      /\ Len(Padded(Rest)) \in Nat /\ Len(Padded(Rest)) >= T
      /\ \A j \in 1 .. T : Padded(Rest)[j] = CharAt(j)
      /\ \A j \in T + 1 .. Len(Padded(Rest)) : Padded(Rest)[j] = Pad
  BY <1>3, PaddedKeeps
<1>5. T' = T /\ \A j : CharAt(j)' = CharAt(j)
  BY <1>1, SameChars
<1>6. PictureTypeOK'
  <2>1. 0 \in 0 .. 2 ^ IntWidth - 1
    <3> DEFINE range == 2 ^ IntWidth
    <3>1. range \in Nat \ {0}
      BY PictureAssumption, PowerPositive
    <3> HIDE DEF range
    <3>2. 0 \in 0 .. range - 1
      BY <3>1
    <3> QED
      BY <3>2 DEF range
  <2>2. read' \in Nat /\ val' \in 0 .. 2 ^ IntWidth - 1 /\ valb' \in -8 .. 7
    BY <1>1, <2>1
  <2>3. text' \in Seq(Chars \cup {Pad})
    BY <1>1, <1>4
  <2> QED
    BY <1>1, <2>2, <2>3 DEF PathInv, PictureTypeOK, imageVars, Levels, MipLevels
<1> HIDE DEF T
<1>7. Decoding'
  <2>1. read' \in 0 .. T /\ Len(text') >= T
    BY <1>1, <1>3, <1>4
  <2>2. /\ \A j \in 1 .. T : text'[j] = CharAt(j)'
        /\ \A j \in T + 1 .. Len(text') : text'[j] = Pad
    BY <1>1, <1>4, <1>5
  <2>3. /\ Len(pixels') = (6 * read') \div 8
        /\ valb' = 6 * read' - 8 * Len(pixels') - 8
        /\ \A i \in 1 .. Len(pixels') : pixels'[i] = data'[i]
        /\ ~(read' > 0)
    <3>1. pixels' = <<>> /\ Len(pixels') = 0
      BY <1>1, <1>2
    <3>2. /\ Len(pixels') = (6 * read') \div 8
          /\ valb' = 6 * read' - 8 * Len(pixels') - 8
          /\ ~(read' > 0)
      <4>1. read' = 0 /\ valb' = -8 /\ Len(pixels') = 0
        BY <1>1, <3>1, Zenon
      <4>2. 0 = (6 * 0) \div 8 /\ -8 = 6 * 0 - 8 * 0 - 8 /\ ~(0 > 0)
        OBVIOUS
      <4> QED
        BY <4>1, <4>2, Zenon
    <3>3. \A i \in 1 .. Len(pixels') : pixels'[i] = data'[i]
      BY <3>1
    <3> QED
      BY <3>2, <3>3
  <2> QED
    BY <1>5, <2>1, <2>2, <2>3 DEF Decoding, T
<1> QED
  BY <1>6, <1>7

-----------------------------------------------------------------------------
(* The rounds of decode.                                                   *)

\* A round of decode: the byte written is the one that was encoded.
LEMMA DecodeCharKeeps ==
  ASSUME PathInv, DecodeChar
  PROVE  PictureTypeOK' /\ Decoding'
<1> DEFINE T == TextLength
           c == text[read + 1]
           bits == valb + 6
           pixel == Field(val', bits, 8)
<1>1. /\ step = "decode"
      /\ data \in Seq(Bytes) /\ text \in Seq(Chars \cup {Pad}) /\ pixels \in Seq(0 .. 255)
      /\ \A j \in 1 .. T : text[j] = CharAt(j)
      /\ \A j \in T + 1 .. Len(text) : text[j] = Pad
      /\ \A i \in 1 .. Len(pixels) : pixels[i] = data[i]
      /\ read > 0 => val % 64 = text[read]
  BY DEF PathInv, PictureTypeOK, Decoding, DecodeChar
<1>2. /\ T \in Nat /\ Len(data) \in Nat /\ T = (8 * Len(data) + 5) \div 6
      /\ read \in 0 .. T /\ read < Len(text) /\ Len(text) \in Nat /\ Len(text) >= T
      /\ val \in Nat /\ Len(pixels) \in Nat
  <2>1. read \in 0 .. T /\ read < Len(text) /\ Len(text) >= T
    BY DEF PathInv, Decoding, DecodeChar
  <2>2. Len(data) \in Nat /\ Len(text) \in Nat /\ val \in Nat /\ Len(pixels) \in Nat
    BY DEF PathInv, PictureTypeOK
  <2>3. T = (8 * Len(data) + 5) \div 6
    BY DEF TextLength
  <2>4. (8 * Len(data) + 5) \div 6 \in Nat
    BY <2>2
  <2> QED
    BY <2>1, <2>2, <2>3, <2>4, Zenon
<1>3. /\ Len(pixels) = (6 * read) \div 8
      /\ valb = 6 * read - 8 * Len(pixels) - 8
  BY DEF PathInv, Decoding, DecodeChar
<1>4. /\ c # Pad
      /\ read' = read + 1 /\ val' = Shifted(val, 6) + c
      /\ bits >= 0 => pixels' = Append(pixels, pixel) /\ valb' = valb - 2
      /\ ~(bits >= 0) => pixels' = pixels /\ valb' = bits
      /\ UNCHANGED <<step, data, text, imageVars>>
  BY DEF DecodeChar
<1> HIDE DEF T, c, bits, pixel
<1>5. read + 1 \in 1 .. T /\ c = CharAt(read + 1) /\ c \in 0 .. 63
  <2>1. read # T
    <3>1. ASSUME read = T PROVE FALSE
      <4>1. read + 1 \in T + 1 .. Len(text)
        BY <1>2, <3>1
      <4> QED
        BY <1>1, <1>4, <4>1 DEF c
    <3> QED
      BY <3>1
  <2>2. read + 1 \in 1 .. T /\ read + 1 \in Nat \ {0}
    BY <1>2, <2>1
  <2>3. c = CharAt(read + 1)
    BY <1>1, <2>2 DEF c
  <2> QED
    BY <1>1, <2>2, <2>3, CharsTyped DEF Chars
<1>6. PICK high \in Nat :
        /\ Shifted(val, 6) = 64 * high
        /\ high % 64 = val % 64
        /\ 64 * high + 64 - 1 < 2 ^ IntWidth
  <2>1. 64 = 2 ^ 6
    BY SMT
  <2>2. 6 \in {6, 8} /\ 64 \in Nat
    OBVIOUS
  <2> QED
    BY <1>2, <2>1, <2>2, ShiftKeepsLow, Zenon
<1>7. /\ val' \in Nat /\ val' = 64 * high + c /\ val' % 64 = c
      /\ val' \in 0 .. 2 ^ IntWidth - 1
  <2> DEFINE range == 2 ^ IntWidth
  <2>1. range \in Nat /\ 64 * high + 64 - 1 < range
    BY <1>6, PowerPositive, PictureAssumption
  <2> HIDE DEF range
  <2>2. val' = 64 * high + c
    BY <1>4, <1>6
  <2>3. val' \in Nat /\ val' % 64 = c /\ val' \in 0 .. range - 1
    BY <1>5, <1>6, <2>1, <2>2
  <2> QED
    BY <2>2, <2>3 DEF range
<1>8. PICK q \in Nat : DecodeAt(q, read, Len(pixels), valb)
  <2>1. read \in Nat
    BY <1>2
  <2> QED
    BY <1>2, <1>3, <2>1, DecodePlace, Zenon
<1>9. \/ read = 4 * q /\ Len(pixels) = 3 * q /\ valb = -8
      \/ read = 4 * q + 1 /\ Len(pixels) = 3 * q /\ valb = -2
      \/ read = 4 * q + 2 /\ Len(pixels) = 3 * q + 1 /\ valb = -4
      \/ read = 4 * q + 3 /\ Len(pixels) = 3 * q + 2 /\ valb = -6
  BY <1>8, Zenon DEF DecodeAt
<1> DEFINE first == ByteAt(3 * q + 1)
           second == ByteAt(3 * q + 2)
           third == ByteAt(3 * q + 3)
<1>10. /\ CharAt(4 * q + 1) = first \div 4
       /\ CharAt(4 * q + 2) = (first % 4) * 16 + second \div 16
       /\ CharAt(4 * q + 3) = (second % 16) * 4 + third \div 64
       /\ CharAt(4 * q + 4) = third % 64
  BY <1>1, CharGroup
<1>11. first \in 0 .. 255 /\ second \in 0 .. 255 /\ third \in 0 .. 255
  BY <1>1, BytesTyped
<1>12. EightBits(high, first, second, third)
  <2> HIDE DEF first, second, third
  <2> QED
    BY <1>11, DecodedBits, Zenon
<1>13. ASSUME bits >= 0
       PROVE  /\ Len(pixels) + 1 \in 1 .. Len(data)
              /\ pixel = data[Len(pixels) + 1]
              /\ pixel \in 0 .. 255
  <2>1. /\ read > 0 /\ high % 64 = text[read] /\ text[read] = CharAt(read)
    <3>1. read > 0 /\ read \in 1 .. T
      BY <1>2, <1>9, <1>13 DEF bits
    <3>2. val % 64 = text[read] /\ text[read] = CharAt(read)
      BY <1>1, <3>1, Zenon
    <3> QED
      BY <1>6, <3>1, <3>2, Zenon
  <2>2. Len(pixels) + 1 \in 1 .. Len(data) /\ Len(pixels) + 1 \in Int
    <3>1. 6 * (read + 1) <= 8 * Len(data) + 5
      BY <1>2, <1>5
    <3>2. CASE read = 4 * q + 1 /\ Len(pixels) = 3 * q
      BY <1>2, <3>1, <3>2
    <3>3. CASE read = 4 * q + 2 /\ Len(pixels) = 3 * q + 1
      BY <1>2, <3>1, <3>3
    <3>4. CASE read = 4 * q + 3 /\ Len(pixels) = 3 * q + 2
      BY <1>2, <3>1, <3>4
    <3> QED
      BY <1>9, <1>13, <3>2, <3>3, <3>4 DEF bits
  <2>3. pixel = ByteAt(Len(pixels) + 1)
    <3>1. CASE valb = -2
      <4>1. bits = 4 /\ read = 4 * q + 1 /\ Len(pixels) + 1 = 3 * q + 1
            /\ read + 1 = 4 * q + 2
        BY <1>9, <3>1 DEF bits
      <4>2. pixel = ((64 * high + c) \div 16) % 256
        BY <1>7, <4>1, FieldIs DEF pixel
      <4>3. high % 64 = first \div 4 /\ c = (first % 4) * 16 + second \div 16
        BY <1>5, <1>10, <2>1, <4>1
      <4> HIDE DEF first, second, third
      <4>4. pixel = first
        BY <1>12, <4>2, <4>3, Zenon DEF EightBits
      <4> QED
        BY <4>1, <4>4, Zenon DEF first
    <3>2. CASE valb = -4
      <4>1. bits = 2 /\ read = 4 * q + 2 /\ Len(pixels) + 1 = 3 * q + 2
            /\ read + 1 = 4 * q + 3
        BY <1>9, <3>2 DEF bits
      <4>2. pixel = ((64 * high + c) \div 4) % 256
        BY <1>7, <4>1, FieldIs DEF pixel
      <4>3. high % 64 = (first % 4) * 16 + second \div 16
            /\ c = (second % 16) * 4 + third \div 64
        BY <1>5, <1>10, <2>1, <4>1
      <4> HIDE DEF first, second, third
      <4>4. pixel = second
        BY <1>12, <4>2, <4>3, Zenon DEF EightBits
      <4> QED
        BY <4>1, <4>4, Zenon DEF second
    <3>3. CASE valb = -6
      <4>1. bits = 0 /\ read = 4 * q + 3 /\ Len(pixels) + 1 = 3 * q + 3
            /\ read + 1 = 4 * q + 4
        BY <1>9, <3>3 DEF bits
      <4>2. pixel = ((64 * high + c) \div 1) % 256
        BY <1>7, <4>1, FieldIs DEF pixel
      <4>3. high % 64 = (second % 16) * 4 + third \div 64 /\ c = third % 64
        BY <1>5, <1>10, <2>1, <4>1
      <4> HIDE DEF first, second, third
      <4>4. pixel = third
        BY <1>12, <4>2, <4>3, Zenon DEF EightBits
      <4> QED
        BY <4>1, <4>4, Zenon DEF third
    <3> QED
      BY <1>9, <1>13, <3>1, <3>2, <3>3 DEF bits
  <2> QED
    BY <1>1, <2>2, <2>3, BytesTyped
<1>14. /\ pixels' \in Seq(0 .. 255)
       /\ \A i \in 1 .. Len(pixels') : pixels'[i] = data[i]
       /\ Len(pixels') = IF bits >= 0 THEN Len(pixels) + 1 ELSE Len(pixels)
  <2>1. CASE bits >= 0
    <3>1. /\ Append(pixels, pixel) \in Seq(0 .. 255)
          /\ Len(Append(pixels, pixel)) = Len(pixels) + 1
          /\ \A i \in 1 .. Len(pixels) : Append(pixels, pixel)[i] = pixels[i]
          /\ Append(pixels, pixel)[Len(pixels) + 1] = pixel
      BY <1>1, <1>13, <2>1, AppendProperties
    <3>2. ASSUME NEW i \in 1 .. Len(pixels) + 1 PROVE Append(pixels, pixel)[i] = data[i]
      <4>1. i \in 1 .. Len(pixels) \/ i = Len(pixels) + 1
        BY <1>2
      <4> QED
        BY <1>1, <1>13, <2>1, <3>1, <4>1
    <3> QED
      BY <1>4, <2>1, <3>1, <3>2
  <2>2. CASE ~(bits >= 0)
    BY <1>1, <1>4, <2>2
  <2> QED
    BY <2>1, <2>2
<1>15. /\ Len(pixels') = (6 * read') \div 8
       /\ valb' = 6 * read' - 8 * Len(pixels') - 8
       /\ valb' \in -8 .. 7
  <2>0. read' = read + 1
    BY <1>4
  <2>1. CASE valb = -8
    <3>1. ~(bits >= 0) /\ bits = -2
      BY <2>1 DEF bits
    <3>2. Len(pixels') = 3 * q /\ valb' = -2 /\ read' = 4 * q + 1
      BY <1>4, <1>9, <1>14, <2>0, <2>1, <3>1
    <3> QED
      BY <3>2
  <2>2. CASE valb = -2
    <3>1. bits >= 0
      BY <2>2 DEF bits
    <3>2. Len(pixels') = 3 * q + 1 /\ valb' = -4 /\ read' = 4 * q + 2
      BY <1>4, <1>9, <1>14, <2>0, <2>2, <3>1
    <3> QED
      BY <3>2
  <2>3. CASE valb = -4
    <3>1. bits >= 0
      BY <2>3 DEF bits
    <3>2. Len(pixels') = 3 * q + 2 /\ valb' = -6 /\ read' = 4 * q + 3
      BY <1>4, <1>9, <1>14, <2>0, <2>3, <3>1
    <3> QED
      BY <3>2
  <2>4. CASE valb = -6
    <3>1. bits >= 0
      BY <2>4 DEF bits
    <3>2. Len(pixels') = 3 * q + 3 /\ valb' = -8 /\ read' = 4 * q + 4
      BY <1>4, <1>9, <1>14, <2>0, <2>4, <3>1
    <3> QED
      BY <3>2
  <2> QED
    BY <1>9, <2>1, <2>2, <2>3, <2>4
<1>16. PictureTypeOK'
  <2>1. read' \in Nat
    BY <1>2, <1>4
  <2> QED
    BY <1>4, <1>7, <1>14, <1>15, <2>1
       DEF PathInv, PictureTypeOK, imageVars, Levels, MipLevels
<1>17. Decoding'
  <2>1. T' = T /\ \A j : CharAt(j)' = CharAt(j)
    BY <1>4, SameChars DEF T
  <2>2. /\ read' \in 0 .. T
        /\ read' > 0 => val' % 64 = text'[read']
    <3>1. read' = read + 1 /\ text'[read'] = c
      BY <1>4 DEF c
    <3> QED
      BY <1>2, <1>5, <1>7, <3>1
  <2>3. /\ Len(text') >= T
        /\ \A j \in 1 .. T : text'[j] = CharAt(j)'
        /\ \A j \in T + 1 .. Len(text') : text'[j] = Pad
    <3>1. Len(text) >= T
      BY <1>2
    <3> QED
      BY <1>1, <1>4, <2>1, <3>1
  <2>4. \A i \in 1 .. Len(pixels') : pixels'[i] = data'[i]
    BY <1>4, <1>14
  <2> QED
    BY <1>15, <2>1, <2>2, <2>3, <2>4 DEF Decoding, T
<1> QED
  BY <1>16, <1>17

\* decode ends where the padding begins or the text ends, with all of the bytes.
LEMMA DecodeEndKeeps ==
  ASSUME PathInv, DecodeEnd
  PROVE  pixels = data
<1> DEFINE T == TextLength
           n == Len(data)
<1>1. /\ data \in Seq(Bytes) /\ pixels \in Seq(0 .. 255)
      /\ \A j \in 1 .. T : text[j] = CharAt(j)
      /\ \A i \in 1 .. Len(pixels) : pixels[i] = data[i]
      /\ Len(pixels) = (6 * read) \div 8
      /\ read < Len(text) => text[read + 1] = Pad
  BY DEF PathInv, PictureTypeOK, Decoding, DecodeEnd
<1>2. /\ T \in Nat /\ n \in Nat /\ T = (8 * n + 5) \div 6
      /\ read \in 0 .. T /\ Len(text) \in Nat /\ Len(text) >= T
  BY DEF PathInv, PictureTypeOK, Decoding, DecodeEnd, TextLength
<1> HIDE DEF T, n
<1>3. read = T
  <2>1. ASSUME read # T PROVE FALSE
    <3>1. read + 1 \in 1 .. T /\ read + 1 \in Nat \ {0} /\ read < Len(text)
      BY <1>2, <2>1
    <3>2. CharAt(read + 1) = Pad /\ CharAt(read + 1) \in Chars
      BY <1>1, <3>1, CharsTyped
    <3> QED
      BY <3>2 DEF Chars, Pad
  <2> QED
    BY <2>1
<1>4. Len(pixels) = n
  <2>1. PICK q \in Nat : n \in {3 * q, 3 * q + 1, 3 * q + 2}
    <3>1. n \div 3 \in Nat
          /\ n \in {3 * (n \div 3), 3 * (n \div 3) + 1, 3 * (n \div 3) + 2}
      BY <1>2
    <3> QED
      BY <3>1
  <2>2. (6 * T) \div 8 = n
    <3>1. CASE n = 3 * q
      <4>1. T = 4 * q
        BY <1>2, <3>1
      <4> QED
        BY <3>1, <4>1
    <3>2. CASE n = 3 * q + 1
      <4>1. T = 4 * q + 2
        BY <1>2, <3>2
      <4> QED
        BY <3>2, <4>1
    <3>3. CASE n = 3 * q + 2
      <4>1. T = 4 * q + 3
        BY <1>2, <3>3
      <4> QED
        BY <3>3, <4>1
    <3> QED
      BY <2>1, <3>1, <3>2, <3>3
  <2> QED
    BY <1>1, <1>3, <2>2
<1>5. pixels = [i \in 1 .. n |-> pixels[i]] /\ data = [i \in 1 .. n |-> data[i]]
  BY <1>1, <1>4 DEF n
<1>6. \A i \in 1 .. n : pixels[i] = data[i]
  BY <1>1, <1>4
<1> QED
  BY <1>5, <1>6

-----------------------------------------------------------------------------
(* The steps of the image.                                                 *)

\* There is at least one level.
LEMMA SizesTyped ==
  ASSUME PictureTypeOK
  PROVE  /\ width \in Nat \ {0} /\ height \in Nat \ {0}
         /\ MipLevels \in Nat \ {0}
         /\ Levels = 0 .. MipLevels - 1
<1>1. width \in Nat \ {0} /\ height \in Nat \ {0}
  BY PictureAssumption DEF PictureTypeOK
<1>2. MipLevels \in 1 .. Longer /\ Longer \in Nat
  BY <1>1, LastLevel DEF Longer
<1> QED
  BY <1>1, <1>2 DEF Levels

LEMMA SameSizes ==
  ASSUME width' = width, height' = height
  PROVE  MipLevels' = MipLevels /\ Levels' = Levels
BY DEF Levels, MipLevels

\* The rounds of base64 leave the image alone.
LEMMA Base64Keeps ==
  ASSUME PathInv, UNCHANGED imageVars, step \in {"encode", "decode"},
         step' \in {"encode", "decode", "transition"}
  PROVE  ~fault' /\ BeforeLevels' /\ AtLevel' /\ BehindLevels'
BY DEF PathInv, BeforeLevels, AtLevel, BehindLevels, imageVars

LEMMA TransitionKeeps ==
  ASSUME PathInv, Transition
  PROVE  PathInv'
<1>1. /\ PictureTypeOK /\ pixels = data /\ ~fault
      /\ mipWidth = width /\ mipHeight = height
  BY DEF PathInv, Decoded, BeforeLevels, Transition
<1>2. /\ step' = "copy" /\ layout' = [l \in Levels |-> "transfer_dst"]
      /\ UNCHANGED <<codeVars, width, height, level, mipWidth, mipHeight, filled, fault>>
  BY DEF Transition
<1>3. MipLevels' = MipLevels /\ Levels' = Levels
  BY <1>2, SameSizes
<1>4. PictureTypeOK'
  BY <1>1, <1>2, <1>3 DEF PictureTypeOK, codeVars
<1>5. Encoding' /\ Decoding' /\ Decoded' /\ ~fault' /\ AtLevel' /\ BehindLevels'
  BY <1>1, <1>2 DEF Encoding, Decoding, Decoded, AtLevel, BehindLevels, codeVars
<1>6. BeforeLevels'
  BY <1>1, <1>2, <1>3 DEF BeforeLevels
<1> QED
  BY <1>4, <1>5, <1>6 DEF PathInv

LEMMA CopyKeeps ==
  ASSUME PathInv, Copy
  PROVE  PathInv'
<1> DEFINE M == MipLevels
<1>1. /\ PictureTypeOK /\ pixels = data /\ ~fault
      /\ mipWidth = width /\ mipHeight = height
      /\ \A l \in Levels : layout[l] = "transfer_dst"
  BY DEF PathInv, Decoded, BeforeLevels, Copy
<1>2. /\ fault' = (fault \/ layout[0] # "transfer_dst")
      /\ filled' = [filled EXCEPT ![0] = <<width, height>>]
      /\ level' = 1
      /\ step' = IF 1 < M THEN "to_source" ELSE "last"
      /\ UNCHANGED <<codeVars, width, height, mipWidth, mipHeight, layout>>
  BY DEF Copy
<1>3. M' = M /\ Levels' = Levels
  BY <1>2, SameSizes
<1>4. /\ width \in Nat \ {0} /\ height \in Nat \ {0} /\ M \in Nat \ {0}
      /\ Levels = 0 .. M - 1
  BY <1>1, SizesTyped
<1> HIDE DEF M
<1>5. /\ layout[0] = "transfer_dst" /\ 0 \in Levels
      /\ filled \in [Levels -> (0 .. width) \X (0 .. height)]
  <2>1. 0 \in Levels
    BY <1>4
  <2> QED
    BY <1>1, <2>1 DEF PictureTypeOK
<1>6. /\ filled' \in [Levels -> (0 .. width) \X (0 .. height)]
      /\ filled'[0] = <<width, height>>
  BY <1>2, <1>4, <1>5
<1>7. PictureTypeOK'
  <2>1. step' \in {"to_source", "last"} /\ level' \in 0 .. M' /\ fault' \in BOOLEAN
    BY <1>1, <1>2, <1>3, <1>4
  <2> QED
    BY <1>1, <1>2, <1>3, <1>6, <2>1 DEF PictureTypeOK, codeVars, M
<1>8. FilledTo(1)'
  <2>1. LevelSize(width, 0) = width /\ LevelSize(height, 0) = height
    BY <1>4, HalfOfLevel
  <2>2. width' = width /\ height' = height
    BY <1>2
  <2>3. \A l \in 0 .. 1 - 1 : l = 0
    OBVIOUS
  <2> QED
    BY <1>6, <2>1, <2>2, <2>3 DEF FilledTo
<1>9. Encoding' /\ Decoding' /\ Decoded' /\ ~fault' /\ BeforeLevels'
  BY <1>1, <1>2, <1>5 DEF Encoding, Decoding, Decoded, BeforeLevels, codeVars
<1>10. AtLevel'
  <2>1. CASE 1 < M
    <3>1. level' \in 1 .. M - 1
      BY <1>2, <1>4, <2>1
    <3>2. mipWidth' = LevelSize(width, 1 - 1) /\ mipHeight' = LevelSize(height, 1 - 1)
      BY <1>1, <1>2, <1>4, HalfOfLevel
    <3>3. /\ \A l \in 0 .. 1 - 2 : layout'[l] = "shader_read"
          /\ layout'[1 - 1] = "transfer_dst"
          /\ \A l \in 1 .. M - 1 : layout'[l] = "transfer_dst"
      BY <1>1, <1>2, <1>4
    <3>4. step' = "to_source" /\ level' = 1 /\ width' = width /\ height' = height
      BY <1>2, <2>1
    <3> QED
      BY <1>3, <1>8, <3>1, <3>2, <3>3, <3>4 DEF AtLevel, M
  <2>2. CASE ~(1 < M)
    BY <1>2, <2>2 DEF AtLevel
  <2> QED
    BY <2>1, <2>2
<1>11. BehindLevels'
  <2>1. CASE 1 < M
    BY <1>2, <2>1 DEF BehindLevels
  <2>2. CASE ~(1 < M)
    <3>1. M = 1 /\ step' = "last"
      BY <1>2, <1>4, <2>2
    <3>2. /\ \A l \in 0 .. M - 2 : layout'[l] = "shader_read"
          /\ layout'[M - 1] = "transfer_dst"
      BY <1>2, <1>5, <3>1
    <3> QED
      BY <1>3, <1>8, <3>1, <3>2 DEF BehindLevels, M
  <2> QED
    BY <2>1, <2>2
<1> QED
  BY <1>7, <1>9, <1>10, <1>11 DEF PathInv

LEMMA ToSourceKeeps ==
  ASSUME PathInv, ToSource
  PROVE  PathInv'
<1> DEFINE M == MipLevels
<1>1. /\ PictureTypeOK /\ pixels = data /\ ~fault
      /\ level \in 1 .. M - 1
      /\ mipWidth = LevelSize(width, level - 1)
      /\ mipHeight = LevelSize(height, level - 1)
      /\ \A l \in 0 .. level - 2 : layout[l] = "shader_read"
      /\ layout[level - 1] = "transfer_dst"
      /\ \A l \in level .. M - 1 : layout[l] = "transfer_dst"
      /\ FilledTo(level)
  BY DEF PathInv, Decoded, AtLevel, ToSource
<1>2. /\ layout' = [layout EXCEPT ![level - 1] = "transfer_src"]
      /\ fault' = (fault \/ layout[level - 1] # "transfer_dst")
      /\ step' = "blit"
      /\ UNCHANGED <<codeVars, width, height, level, mipWidth, mipHeight, filled>>
  BY DEF ToSource, Barrier
<1>3. M' = M /\ Levels' = Levels
  BY <1>2, SameSizes
<1>4. M \in Nat \ {0} /\ Levels = 0 .. M - 1
  BY <1>1, SizesTyped
<1> HIDE DEF M
<1>5. PictureTypeOK'
  <2>1. layout' \in [Levels -> {"undefined", "transfer_dst", "transfer_src", "shader_read"}]
    BY <1>1, <1>2 DEF PictureTypeOK
  <2> QED
    BY <1>1, <1>2, <1>3, <2>1 DEF PictureTypeOK, codeVars, M
<1>6. Encoding' /\ Decoding' /\ Decoded' /\ ~fault' /\ BeforeLevels' /\ BehindLevels'
  BY <1>1, <1>2 DEF Encoding, Decoding, Decoded, BeforeLevels, BehindLevels, codeVars
<1>7. AtLevel'
  <2>1. /\ \A l \in 0 .. level - 2 : layout'[l] = "shader_read"
        /\ layout'[level - 1] = "transfer_src"
        /\ \A l \in level .. M - 1 : layout'[l] = "transfer_dst"
    <3>1. layout \in [0 .. M - 1 -> {"undefined", "transfer_dst", "transfer_src", "shader_read"}]
      BY <1>1, <1>4 DEF PictureTypeOK
    <3> QED
      BY <1>1, <1>2, <1>4, <3>1
  <2>2. FilledTo(level)'
    BY <1>1, <1>2 DEF FilledTo
  <2> QED
    BY <1>1, <1>2, <1>3, <2>1, <2>2 DEF AtLevel, M
<1> QED
  BY <1>5, <1>6, <1>7 DEF PathInv

LEMMA BlitKeeps ==
  ASSUME PathInv, Blit
  PROVE  PathInv'
<1> DEFINE M == MipLevels
<1>1. /\ PictureTypeOK /\ pixels = data /\ ~fault
      /\ level \in 1 .. M - 1
      /\ mipWidth = LevelSize(width, level - 1)
      /\ mipHeight = LevelSize(height, level - 1)
      /\ \A l \in 0 .. level - 2 : layout[l] = "shader_read"
      /\ layout[level - 1] = "transfer_src"
      /\ \A l \in level .. M - 1 : layout[l] = "transfer_dst"
      /\ FilledTo(level)
  BY DEF PathInv, Decoded, AtLevel, Blit
<1>2. /\ fault' = (\/ fault
                   \/ layout[level - 1] # "transfer_src"
                   \/ layout[level] # "transfer_dst"
                   \/ filled[level - 1] # <<mipWidth, mipHeight>>)
      /\ filled' = [filled EXCEPT ![level] = <<Half(mipWidth), Half(mipHeight)>>]
      /\ step' = "to_shader"
      /\ UNCHANGED <<codeVars, width, height, level, mipWidth, mipHeight, layout>>
  BY DEF Blit
<1>3. M' = M /\ Levels' = Levels
  BY <1>2, SameSizes
<1>4. /\ width \in Nat \ {0} /\ height \in Nat \ {0} /\ M \in Nat \ {0}
      /\ Levels = 0 .. M - 1
  BY <1>1, SizesTyped
<1> HIDE DEF M
<1>5. /\ level \in Levels /\ level - 1 \in 0 .. level - 1 /\ level \in level .. M - 1
      /\ level - 1 \in Nat /\ (level - 1) + 1 = level /\ level \in Nat
  BY <1>1, <1>4
<1>6. /\ Half(mipWidth) = LevelSize(width, level)
      /\ Half(mipHeight) = LevelSize(height, level)
      /\ LevelSize(width, level) \in 1 .. width
      /\ LevelSize(height, level) \in 1 .. height
  <2>1. /\ Half(LevelSize(width, level - 1)) = LevelSize(width, (level - 1) + 1)
        /\ Half(LevelSize(height, level - 1)) = LevelSize(height, (level - 1) + 1)
    BY <1>4, <1>5, HalfOfLevel, Zenon
  <2>2. /\ LevelSize(width, level) \in 1 .. width
        /\ LevelSize(height, level) \in 1 .. height
    BY <1>4, <1>5, HalfOfLevel, Zenon
  <2> QED
    BY <1>1, <1>5, <2>1, <2>2, Zenon
<1>7. filled' \in [Levels -> (0 .. width) \X (0 .. height)]
  <2>1. filled \in [Levels -> (0 .. width) \X (0 .. height)]
    BY <1>1 DEF PictureTypeOK
  <2>2. <<Half(mipWidth), Half(mipHeight)>> \in (0 .. width) \X (0 .. height)
    BY <1>4, <1>6
  <2> QED
    BY <1>2, <2>1, <2>2
<1>8. PictureTypeOK'
  <2>1. fault' \in BOOLEAN
    BY <1>2
  <2> QED
    BY <1>1, <1>2, <1>3, <1>7, <2>1 DEF PictureTypeOK, codeVars, M
<1>9. ~fault'
  <2>1. filled[level - 1] = <<mipWidth, mipHeight>>
    BY <1>1, <1>5 DEF FilledTo
  <2>2. layout[level] = "transfer_dst"
    BY <1>1, <1>5
  <2> QED
    BY <1>1, <1>2, <2>1, <2>2
<1>10. Encoding' /\ Decoding' /\ Decoded' /\ BeforeLevels' /\ BehindLevels'
  BY <1>1, <1>2 DEF Encoding, Decoding, Decoded, BeforeLevels, BehindLevels, codeVars
<1>11. FilledTo(level + 1)'
  <2>1. width' = width /\ height' = height /\ level' = level
    BY <1>2
  <2>2. filled \in [Levels -> (0 .. width) \X (0 .. height)]
    BY <1>1 DEF PictureTypeOK
  <2>3. ASSUME NEW l \in 0 .. (level + 1) - 1
        PROVE  filled'[l] = <<LevelSize(width, l), LevelSize(height, l)>>
    <3>1. CASE l = level
      BY <1>2, <1>5, <1>6, <2>2, <3>1
    <3>2. CASE l # level
      <4>1. l \in 0 .. level - 1 /\ l \in Levels
        BY <1>1, <1>4, <3>2
      <4>2. filled'[l] = filled[l]
        BY <1>2, <2>2, <3>2, <4>1
      <4> QED
        BY <1>1, <4>1, <4>2 DEF FilledTo
    <3> QED
      BY <3>1, <3>2
  <2> QED
    BY <2>1, <2>3 DEF FilledTo
<1>12. AtLevel'
  BY <1>1, <1>2, <1>3, <1>11 DEF AtLevel, M
<1> QED
  BY <1>8, <1>9, <1>10, <1>12 DEF PathInv

LEMMA ToShaderKeeps ==
  ASSUME PathInv, ToShader
  PROVE  PathInv'
<1> DEFINE M == MipLevels
<1>1. /\ PictureTypeOK /\ pixels = data /\ ~fault
      /\ level \in 1 .. M - 1
      /\ mipWidth = LevelSize(width, level - 1)
      /\ mipHeight = LevelSize(height, level - 1)
      /\ \A l \in 0 .. level - 2 : layout[l] = "shader_read"
      /\ layout[level - 1] = "transfer_src"
      /\ \A l \in level .. M - 1 : layout[l] = "transfer_dst"
      /\ FilledTo(level + 1)
  BY DEF PathInv, Decoded, AtLevel, ToShader
<1>2. /\ layout' = [layout EXCEPT ![level - 1] = "shader_read"]
      /\ fault' = (fault \/ layout[level - 1] # "transfer_src")
      /\ mipWidth' = Half(mipWidth)
      /\ mipHeight' = Half(mipHeight)
      /\ level' = level + 1
      /\ step' = IF level + 1 < M THEN "to_source" ELSE "last"
      /\ UNCHANGED <<codeVars, width, height, filled>>
  BY DEF ToShader, Barrier
<1>3. M' = M /\ Levels' = Levels
  BY <1>2, SameSizes
<1>4. /\ width \in Nat \ {0} /\ height \in Nat \ {0} /\ M \in Nat \ {0}
      /\ Levels = 0 .. M - 1
  BY <1>1, SizesTyped
<1> HIDE DEF M
<1>5. /\ level - 1 \in Nat /\ (level - 1) + 1 = level /\ level \in Nat
      /\ (level + 1) - 1 = level /\ level + 1 \in 0 .. M
  BY <1>1, <1>4
<1>6. /\ mipWidth' = LevelSize(width, level)
      /\ mipHeight' = LevelSize(height, level)
      /\ LevelSize(width, level) \in 1 .. width
      /\ LevelSize(height, level) \in 1 .. height
  <2>1. /\ Half(LevelSize(width, level - 1)) = LevelSize(width, (level - 1) + 1)
        /\ Half(LevelSize(height, level - 1)) = LevelSize(height, (level - 1) + 1)
    BY <1>4, <1>5, HalfOfLevel, Zenon
  <2>2. /\ LevelSize(width, level) \in 1 .. width
        /\ LevelSize(height, level) \in 1 .. height
    BY <1>4, <1>5, HalfOfLevel, Zenon
  <2> QED
    BY <1>1, <1>2, <1>5, <2>1, <2>2, Zenon
<1>7. PictureTypeOK'
  <2>1. layout' \in [Levels -> {"undefined", "transfer_dst", "transfer_src", "shader_read"}]
    BY <1>1, <1>2 DEF PictureTypeOK
  <2>2. /\ step' \in {"to_source", "last"} /\ level' \in 0 .. M' /\ fault' \in BOOLEAN
        /\ mipWidth' \in 1 .. width' /\ mipHeight' \in 1 .. height'
    BY <1>2, <1>3, <1>5, <1>6
  <2> QED
    BY <1>1, <1>2, <1>3, <2>1, <2>2 DEF PictureTypeOK, codeVars, M
<1>8. Encoding' /\ Decoding' /\ Decoded' /\ ~fault' /\ BeforeLevels'
  BY <1>1, <1>2 DEF Encoding, Decoding, Decoded, BeforeLevels, codeVars
<1>9. \A l \in 0 .. (level + 1) - 1 :
        filled'[l] = <<LevelSize(width', l), LevelSize(height', l)>>
  BY <1>1, <1>2 DEF FilledTo
<1>10. /\ \A l \in 0 .. level - 1 : layout'[l] = "shader_read"
       /\ layout'[level] = "transfer_dst"
       /\ \A l \in level .. M - 1 : layout'[l] = "transfer_dst"
  <2>1. layout \in [0 .. M - 1 -> {"undefined", "transfer_dst", "transfer_src", "shader_read"}]
    BY <1>1, <1>4 DEF PictureTypeOK
  <2> QED
    BY <1>1, <1>2, <1>4, <2>1
<1>11. CASE level + 1 < M
  <2>1. step' = "to_source"
    BY <1>2, <1>11
  <2>2. BehindLevels'
    BY <2>1 DEF BehindLevels
  <2>3. AtLevel'
    <3>1. level' \in 1 .. M - 1
      BY <1>1, <1>2, <1>4, <1>11
    <3>2. /\ \A l \in 0 .. level' - 2 : layout'[l] = "shader_read"
          /\ layout'[level' - 1] = "transfer_dst"
          /\ \A l \in level' .. M - 1 : layout'[l] = "transfer_dst"
      BY <1>1, <1>2, <1>4, <1>5, <1>10
    <3>3. /\ mipWidth' = LevelSize(width', level' - 1)
          /\ mipHeight' = LevelSize(height', level' - 1)
      BY <1>2, <1>5, <1>6
    <3>4. FilledTo(level)'
      BY <1>1, <1>2, <1>5, <1>9 DEF FilledTo
    <3> QED
      BY <1>3, <2>1, <3>1, <3>2, <3>3, <3>4 DEF AtLevel, M
  <2> QED
    BY <1>7, <1>8, <2>2, <2>3 DEF PathInv
<1>12. CASE ~(level + 1 < M)
  <2>1. step' = "last" /\ M = level + 1
    BY <1>1, <1>2, <1>4, <1>12
  <2>2. AtLevel'
    BY <2>1 DEF AtLevel
  <2>3. BehindLevels'
    <3>1. /\ \A l \in 0 .. M - 2 : layout'[l] = "shader_read"
          /\ layout'[M - 1] = "transfer_dst"
      BY <1>5, <1>10, <2>1
    <3>2. \A l \in 0 .. M - 1 : filled'[l] = <<LevelSize(width', l), LevelSize(height', l)>>
      BY <1>1, <1>2, <2>1 DEF FilledTo
    <3> QED
      BY <1>3, <2>1, <3>1, <3>2 DEF BehindLevels, FilledTo, M
  <2> QED
    BY <1>7, <1>8, <2>2, <2>3 DEF PathInv
<1> QED
  BY <1>11, <1>12

LEMMA LastKeeps ==
  ASSUME PathInv, Last
  PROVE  PathInv'
<1> DEFINE M == MipLevels
<1>1. /\ PictureTypeOK /\ pixels = data /\ ~fault
      /\ \A l \in 0 .. M - 2 : layout[l] = "shader_read"
      /\ layout[M - 1] = "transfer_dst"
      /\ FilledTo(M)
  BY DEF PathInv, Decoded, BehindLevels, Last
<1>2. /\ layout' = [layout EXCEPT ![M - 1] = "shader_read"]
      /\ fault' = (fault \/ layout[M - 1] # "transfer_dst")
      /\ step' = "done"
      /\ UNCHANGED <<codeVars, width, height, level, mipWidth, mipHeight, filled>>
  BY DEF Last, Barrier
<1>3. M' = M /\ Levels' = Levels
  BY <1>2, SameSizes
<1>4. M \in Nat \ {0} /\ Levels = 0 .. M - 1
  BY <1>1, SizesTyped
<1> HIDE DEF M
<1>5. PictureTypeOK'
  <2>1. layout' \in [Levels -> {"undefined", "transfer_dst", "transfer_src", "shader_read"}]
    BY <1>1, <1>2 DEF PictureTypeOK
  <2> QED
    BY <1>1, <1>2, <1>3, <2>1 DEF PictureTypeOK, codeVars, M
<1>6. Encoding' /\ Decoding' /\ Decoded' /\ ~fault' /\ BeforeLevels' /\ AtLevel'
  BY <1>1, <1>2 DEF Encoding, Decoding, Decoded, BeforeLevels, AtLevel, codeVars
<1>7. BehindLevels'
  <2>1. \A l \in Levels : layout'[l] = "shader_read"
    <3>1. layout \in [0 .. M - 1 -> {"undefined", "transfer_dst", "transfer_src", "shader_read"}]
      BY <1>1, <1>4 DEF PictureTypeOK
    <3> QED
      BY <1>1, <1>2, <1>4, <3>1
  <2>2. \A l \in 0 .. M - 1 : filled'[l] = <<LevelSize(width', l), LevelSize(height', l)>>
    BY <1>1, <1>2 DEF FilledTo
  <2> QED
    BY <1>2, <1>3, <2>1, <2>2 DEF BehindLevels, FilledTo, M
<1> QED
  BY <1>5, <1>6, <1>7 DEF PathInv

-----------------------------------------------------------------------------
(* The invariant, and what follows from it.                                *)

LEMMA PathInvInit ==
  ASSUME PictureInit
  PROVE  PathInv
<1>1. PICK n \in 0 .. MaxBytes : data \in [1 .. n -> Bytes]
  BY DEF PictureInit
<1>2. /\ step = "encode" /\ read = 0 /\ val = 0 /\ valb = -6 /\ text = <<>> /\ pixels = <<>>
      /\ width \in Widths /\ height \in Heights /\ level = 0
      /\ mipWidth = width /\ mipHeight = height
      /\ layout = [l \in Levels |-> "undefined"]
      /\ filled = [l \in Levels |-> NotFilled] /\ fault = FALSE
  BY DEF PictureInit
<1>3. width \in Nat \ {0} /\ height \in Nat \ {0}
  BY <1>2, PictureAssumption
<1>4. data \in Seq(Bytes) /\ Len(data) \in Nat
  <2>1. n \in Nat
    BY PictureAssumption
  <2> QED
    BY <1>1, <2>1
<1>5. PictureTypeOK
  <2>1. MipLevels \in Nat
    <3>1. MipLevels \in 1 .. Longer /\ Longer \in Nat
      BY <1>3, LastLevel DEF Longer
    <3> QED
      BY <3>1
  <2>2. 0 \in 0 .. 2 ^ IntWidth - 1
    <3> DEFINE range == 2 ^ IntWidth
    <3>1. range \in Nat \ {0}
      BY PictureAssumption, PowerPositive
    <3> HIDE DEF range
    <3>2. 0 \in 0 .. range - 1
      BY <3>1
    <3> QED
      BY <3>2 DEF range
  <2>3. /\ read \in Nat /\ val \in 0 .. 2 ^ IntWidth - 1 /\ valb \in -8 .. 7
        /\ level \in 0 .. MipLevels
    BY <1>2, <2>1, <2>2
  <2>4. text \in Seq(Chars \cup {Pad}) /\ pixels \in Seq(0 .. 255)
    BY <1>2
  <2>5. mipWidth \in 1 .. width /\ mipHeight \in 1 .. height
    BY <1>2, <1>3
  <2>6. layout \in [Levels -> {"undefined", "transfer_dst", "transfer_src", "shader_read"}]
    BY <1>2
  <2>7. filled \in [Levels -> (0 .. width) \X (0 .. height)]
    <3>1. NotFilled \in (0 .. width) \X (0 .. height)
      BY <1>3 DEF NotFilled
    <3> QED
      BY <1>2, <3>1
  <2> QED
    BY <1>2, <1>4, <2>3, <2>4, <2>5, <2>6, <2>7 DEF PictureTypeOK
<1>6. Encoding
  <2>1. Len(text) = 0
    BY <1>2
  <2>2. 0 = (8 * 0) \div 6 /\ -6 = 8 * 0 - 6 * 0 - 6 /\ ~(0 > 0)
    OBVIOUS
  <2>3. /\ Len(text) = (8 * read) \div 6
        /\ valb = 8 * read - 6 * Len(text) - 6
        /\ ~(read > 0)
    BY <1>2, <2>1, <2>2, Zenon
  <2>4. read \in 0 .. Len(data) /\ \A j \in 1 .. Len(text) : text[j] = CharAt(j)
    BY <1>2, <1>4, <2>1
  <2> QED
    BY <1>2, <2>3, <2>4 DEF Encoding
<1>7. Decoding /\ Decoded /\ ~fault /\ BeforeLevels /\ AtLevel /\ BehindLevels
  BY <1>2 DEF Decoding, Decoded, BeforeLevels, AtLevel, BehindLevels
<1> QED
  BY <1>5, <1>6, <1>7 DEF PathInv

LEMMA PathInvNext ==
  ASSUME PathInv, [PictureNext]_pictureVars
  PROVE  PathInv'
<1>1. CASE EncodeByte
  <2>1. PictureTypeOK' /\ Encoding'
    BY <1>1, EncodeByteKeeps
  <2>2. step = "encode" /\ step' = "encode" /\ UNCHANGED imageVars
    BY <1>1 DEF EncodeByte
  <2>3. ~fault' /\ BeforeLevels' /\ AtLevel' /\ BehindLevels'
    BY <2>2, Base64Keeps
  <2>4. Decoding' /\ Decoded'
    BY <2>2 DEF Decoding, Decoded
  <2> QED
    BY <2>1, <2>3, <2>4 DEF PathInv
<1>2. CASE EncodeEnd
  <2>1. PictureTypeOK' /\ Decoding'
    BY <1>2, EncodeEndKeeps
  <2>2. step = "encode" /\ step' = "decode" /\ UNCHANGED imageVars
    BY <1>2 DEF EncodeEnd
  <2>3. ~fault' /\ BeforeLevels' /\ AtLevel' /\ BehindLevels'
    BY <2>2, Base64Keeps
  <2>4. Encoding' /\ Decoded'
    BY <2>2 DEF Encoding, Decoded
  <2> QED
    BY <2>1, <2>3, <2>4 DEF PathInv
<1>3. CASE DecodeChar
  <2>1. PictureTypeOK' /\ Decoding'
    BY <1>3, DecodeCharKeeps
  <2>2. step = "decode" /\ step' = "decode" /\ UNCHANGED imageVars
    BY <1>3 DEF DecodeChar
  <2>3. ~fault' /\ BeforeLevels' /\ AtLevel' /\ BehindLevels'
    BY <2>2, Base64Keeps
  <2>4. Encoding' /\ Decoded'
    BY <2>2 DEF Encoding, Decoded
  <2> QED
    BY <2>1, <2>3, <2>4 DEF PathInv
<1>4. CASE DecodeEnd
  <2>1. pixels = data
    BY <1>4, DecodeEndKeeps
  <2>2. /\ step = "decode" /\ step' = "transition"
        /\ UNCHANGED imageVars /\ UNCHANGED codeVars
    BY <1>4 DEF DecodeEnd
  <2>3. ~fault' /\ BeforeLevels' /\ AtLevel' /\ BehindLevels'
    BY <2>2, Base64Keeps
  <2>4. Encoding' /\ Decoding' /\ Decoded'
    BY <2>1, <2>2 DEF Encoding, Decoding, Decoded, codeVars
  <2>5. PictureTypeOK'
    BY <2>2 DEF PathInv, PictureTypeOK, codeVars, imageVars, Levels, MipLevels
  <2> QED
    BY <2>3, <2>4, <2>5 DEF PathInv
<1>5. CASE Transition
  BY <1>5, TransitionKeeps
<1>6. CASE Copy
  BY <1>6, CopyKeeps
<1>7. CASE ToSource
  BY <1>7, ToSourceKeeps
<1>8. CASE Blit
  BY <1>8, BlitKeeps
<1>9. CASE ToShader
  BY <1>9, ToShaderKeeps
<1>10. CASE Last
  BY <1>10, LastKeeps
<1>11. CASE UNCHANGED pictureVars
  <2>1. UNCHANGED <<step, codeVars, imageVars>>
    BY <1>11 DEF pictureVars
  <2>2. PictureTypeOK'
    BY <2>1 DEF PathInv, PictureTypeOK, codeVars, imageVars, Levels, MipLevels
  <2>3. TextLength' = TextLength /\ \A j : CharAt(j)' = CharAt(j)
    BY <2>1, SameChars DEF codeVars
  <2>4. Encoding' /\ Decoding' /\ Decoded'
    BY <2>1, <2>3 DEF PathInv, Encoding, Decoding, Decoded, codeVars
  <2>5. MipLevels' = MipLevels /\ Levels' = Levels
    BY <2>1, SameSizes DEF imageVars
  <2>6. ~fault' /\ BeforeLevels' /\ AtLevel' /\ BehindLevels'
    BY <2>1, <2>5 DEF PathInv, BeforeLevels, AtLevel, BehindLevels, FilledTo, imageVars
  <2> QED
    BY <2>2, <2>4, <2>6 DEF PathInv
<1> QED
  BY <1>1, <1>2, <1>3, <1>4, <1>5, <1>6, <1>7, <1>8, <1>9, <1>10, <1>11 DEF PictureNext

\* The values of the picture's path have their types whatever its bytes, the
\* width of int and the size of the image are (Base64.cpp, Renderer.cpp:959-1055).
THEOREM PictureTypeCorrect == PictureSpec => []PictureTypeOK
<1>1. PathInv => PictureTypeOK
  BY DEF PathInv
<1> QED
  BY PathInvInit, PathInvNext, <1>1, PTL DEF PictureSpec

\* A picture of any length comes out of base64 as it went in, and every level of
\* an image of any size has been filled from the one before and is readable, the
\* last of them of a single texel (Base64.cpp, Renderer.cpp:959-1055).
THEOREM PicturesComeOut == PictureSpec => []PictureComesOut
<1>1. ASSUME PathInv PROVE PictureComesOut
  <2>1. /\ PictureTypeOK /\ ~fault
        /\ step = "transition" => pixels = data
        /\ step = "done" => (\A l \in Levels : layout[l] = "shader_read") /\ FilledTo(MipLevels)
    BY <1>1 DEF PathInv, Decoded, BehindLevels
  <2>2. /\ width \in Nat \ {0} /\ height \in Nat \ {0} /\ MipLevels \in Nat \ {0}
        /\ Levels = 0 .. MipLevels - 1
    BY <2>1, SizesTyped
  <2>3. LevelSize(width, MipLevels - 1) = 1 /\ LevelSize(height, MipLevels - 1) = 1
    BY <2>2, LastLevel
  <2> DEFINE M == MipLevels
  <2> HIDE DEF M
  <2>4. M - 1 \in 0 .. M - 1
    BY <2>2 DEF M
  <2> QED
    BY <2>1, <2>2, <2>3, <2>4 DEF PictureComesOut, FilledTo, M
<1> QED
  BY PathInvInit, PathInvNext, <1>1, PTL DEF PictureSpec

=============================================================================
