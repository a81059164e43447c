------------------------------ MODULE Textures ------------------------------
(***************************************************************************)
(* The profile pictures of the client as textures: ClientApplication.cpp   *)
(* loads them from a file or from the server, Renderer.cpp keeps one       *)
(* texture for the user and one for each other user, and the panels and    *)
(* the chat window keep ids of them from frame to frame, which the GPU     *)
(* reads after the frame is submitted.  A texture is destroyed when        *)
(* another takes its place, with whatever id of it is still about.         *)
(***************************************************************************)
EXTENDS FileDialog, Sequences, FiniteSets

CONSTANTS
    Names,          \* user names
    NoName,         \* m_Client has no user name yet
    MaxTextures,    \* bound: textures created
    MaxJoins,       \* bound: attempts to join
    FramesInFlight  \* MAX_FRAMES_IN_FLIGHT

ASSUME TexturesAssumption ==
    /\ NoName \notin Names
    /\ MaxTextures \in Nat /\ MaxJoins \in Nat
    /\ FramesInFlight \in Nat \ {0}

VARIABLES
    pc,         \* the interface thread is in "update", at the "paths", in "render"
    layer,      \* m_CurrentLayer
    member,     \* the server has the user "out", "asked" or "in"
    username,   \* of m_Client
    hasPicture, \* m_Client.hasProfilePicture()
    awaited,    \* the server was asked for the user's own picture
    created,    \* ghost: textures created; they are numbered
    client,     \* m_ClientSideProfilePictureTexture: its number, or 0
    server,     \* m_ServerSideProfilePictureTextures: likewise, per name
    panelId,    \* the texture the login and register panels show
    chatIds,    \* m_ProfilePictureIds of the chat window
    authors,    \* the senders in m_Messages
    gpu,        \* the textures that the frames in flight read
    owner,      \* ghost: whose picture each texture is; Mine for a file
    asked,      \* ghost: the names under which the user tried to join
    joins,      \* ghost: how often
    reloaded,   \* ghost: a file was loaded after the last attempt to join
    halfLoaded  \* ghost: a picture could be read and not be resized

chatVars == <<member, username, hasPicture, awaited, asked, joins>>
textureVars == <<created, client, server, owner>>
loadVars == <<reloaded, halfLoaded>>
vars == <<dialogVars, chatVars, textureVars, loadVars, pc, layer, panelId, chatIds,
          authors, gpu>>

Mine == NoName
NoId == 0
\* A descriptor of a texture that was never created.
NullId == MaxTextures + 1
Ids == 0 .. MaxTextures + 1

TypeOK ==
    /\ DialogTypeOK
    /\ pc \in {"update", "paths", "render"}
    /\ layer \in {"login", "register", "chat"}
    /\ member \in {"out", "asked", "in"}
    /\ username \in Names \cup {NoName}
    /\ hasPicture \in BOOLEAN /\ awaited \in BOOLEAN
    /\ created \in 0 .. MaxTextures
    /\ client \in 0 .. created
    /\ server \in [Names -> 0 .. created]
    /\ panelId \in Ids
    /\ chatIds \in [Names -> Ids]
    /\ authors \subseteq Names
    /\ gpu \in Seq(SUBSET Ids) /\ Len(gpu) <= FramesInFlight
    /\ owner \in [1 .. MaxTextures -> Names \cup {NoName}]
    /\ asked \subseteq Names
    /\ joins \in 0 .. MaxJoins
    /\ reloaded \in BOOLEAN /\ halfLoaded \in BOOLEAN

Init ==
    /\ DialogInit
    /\ pc = "update"
    /\ layer = "login"
    /\ member = "out"
    /\ username = NoName
    /\ hasPicture = FALSE
    /\ awaited = FALSE
    /\ created = 0
    /\ client = 0
    /\ server = [n \in Names |-> 0]
    /\ panelId = NoId
    /\ chatIds = [n \in Names |-> NoId]
    /\ authors = {}
    /\ gpu = <<>>
    /\ owner = [i \in 1 .. MaxTextures |-> NoName]
    /\ asked = {}
    /\ joins = 0
    /\ reloaded = FALSE
    /\ halfLoaded = FALSE

-----------------------------------------------------------------------------
(* The renderer.                                                           *)

\* Variant of ClearTexture: nobody waits for the frames in flight.
ClearTextureAtOnce == UNCHANGED gpu

\* clearProfilePictureTexture: m_Device.waitIdle(), then the view, the image
\* and its memory go.
ClearTexture == gpu' = <<>>

\* createClientSideProfilePicture
CreateClientSide(whose) ==
    /\ created < MaxTextures
    /\ created' = created + 1
    /\ ClearTexture
    /\ client' = created + 1
    /\ owner' = [owner EXCEPT ![created + 1] = whose]
    /\ UNCHANGED server

\* createProfilePicture
CreateServerSide(name) ==
    /\ created < MaxTextures
    /\ created' = created + 1
    /\ ClearTexture
    /\ server' = [server EXCEPT ![name] = created + 1]
    /\ owner' = [owner EXCEPT ![created + 1] = name]
    /\ UNCHANGED client

\* getClientSideProfilePictureTextureID, which does not test for a texture.
ClientId(texture) == IF texture = 0 THEN NullId ELSE texture

Live(id) == id # 0 /\ (id = client \/ \E n \in Names : id = server[n])

-----------------------------------------------------------------------------
(* onUpdate: what the server says.  module Client has the connection; here *)
(* the server is taken to accept, reject, kick and send as it does to one. *)

Accepted ==
    /\ pc = "update" /\ member = "asked"
    /\ member' = "in"
    /\ layer' = "chat"
    /\ UNCHANGED <<dialogVars, textureVars, loadVars, pc, panelId, chatIds, authors,
                   gpu, username, hasPicture, awaited, asked, joins>>

\* A reject, or a kick.
TurnedAway ==
    /\ pc = "update" /\ member # "out"
    /\ member' = "out"
    /\ layer' = "login"
    /\ UNCHANGED <<dialogVars, textureVars, loadVars, pc, panelId, chatIds, authors,
                   gpu, username, hasPicture, awaited, asked, joins>>

\* addMessage
ChatArrives(name) ==
    /\ pc = "update" /\ member = "in"
    /\ name \notin authors
    /\ authors' = authors \cup {name}
    /\ UNCHANGED <<dialogVars, chatVars, textureVars, loadVars, pc, layer, panelId,
                   chatIds, gpu>>

\* Variant of OthersPicture: the chat window keeps the id it has.
OthersPictureOnce(name) ==
    /\ pc = "update" /\ member = "in"
    /\ name # username
    /\ CreateServerSide(name)
    /\ chatIds' = IF chatIds[name] = NoId THEN [chatIds EXCEPT ![name] = server'[name]]
                  ELSE chatIds
    /\ UNCHANGED <<dialogVars, chatVars, loadVars, pc, layer, panelId, authors>>

\* PROFILE_PICTURE of another user: handleProfilePictureCreation.
OthersPicture(name) ==
    /\ pc = "update" /\ member = "in"
    /\ name # username
    /\ CreateServerSide(name)
    /\ chatIds' = [chatIds EXCEPT ![name] = server'[name]]
    /\ UNCHANGED <<dialogVars, chatVars, loadVars, pc, layer, panelId, authors>>

\* Variant of OwnPicture: the panels of the other layers are forgotten.
OwnPictureInChat ==
    /\ pc = "update" /\ member = "in"
    /\ awaited
    /\ awaited' = FALSE
    /\ CreateClientSide(username)
    /\ chatIds' = [chatIds EXCEPT ![username] = ClientId(client')]
    /\ UNCHANGED <<dialogVars, loadVars, pc, layer, panelId, authors, member,
                   username, hasPicture, asked, joins>>

\* PROFILE_PICTURE of the user, who joined without one.
OwnPicture ==
    /\ pc = "update" /\ member = "in"
    /\ awaited
    /\ awaited' = FALSE
    /\ CreateClientSide(username)
    /\ panelId' = ClientId(client')
    /\ chatIds' = [chatIds EXCEPT ![username] = ClientId(client')]
    /\ UNCHANGED <<dialogVars, loadVars, pc, layer, authors, member, username,
                   hasPicture, asked, joins>>

\* The inbox is empty.
InboxEmpty ==
    /\ pc = "update"
    /\ pc' = "paths"
    /\ UNCHANGED <<dialogVars, chatVars, textureVars, loadVars, layer, panelId,
                   chatIds, authors, gpu>>

-----------------------------------------------------------------------------
(* onUpdate: one path, if there is one.                                    *)

NoPath ==
    /\ pc = "paths" /\ paths = 0
    /\ pc' = "render"
    /\ UNCHANGED <<dialogVars, chatVars, textureVars, loadVars, layer, panelId,
                   chatIds, authors, gpu>>

TakePath ==
    /\ pc = "paths" /\ paths > 0
    /\ paths' = paths - 1
    /\ pc' = "render"
    /\ UNCHANGED <<clicks, starting, showing, closing, isOpen, layer, chatIds, authors,
                   member, username, awaited, asked, joins>>

\* loadImage succeeds.
LoadPicture ==
    /\ TakePath
    /\ hasPicture' = TRUE
    /\ reloaded' = TRUE
    /\ CreateClientSide(Mine)
    /\ panelId' = ClientId(client')
    /\ UNCHANGED halfLoaded

\* stbi_load fails: m_Pixels stays.
LoadFails ==
    /\ TakePath
    /\ UNCHANGED <<textureVars, loadVars, hasPicture, panelId, gpu>>

\* stbir_resize fails, when m_Pixels has its new size already.
ResizeFails ==
    /\ TakePath
    /\ hasPicture' = TRUE
    /\ halfLoaded' = TRUE
    /\ UNCHANGED <<textureVars, reloaded, panelId, gpu>>

-----------------------------------------------------------------------------
(* onRender: the current layer draws its pictures; then come the clicks.   *)

\* drawCircularProfile of the chat window, beside every message, and of the
\* login and register panels.
ChatPictures == {chatIds[n] : n \in authors} \ {NoId}
PanelPictures == {panelId} \ {NoId}
Drawn == IF layer = "chat" THEN ChatPictures ELSE PanelPictures

\* A minimized window renders nothing.
Minimized ==
    /\ pc = "render"
    /\ pc' = "update"
    /\ UNCHANGED <<dialogVars, chatVars, textureVars, loadVars, layer, panelId,
                   chatIds, authors, gpu>>

\* waitForFences, the drawing, and renderFrame.
Draw ==
    /\ pc = "render"
    /\ Len(gpu) < FramesInFlight
    /\ gpu' = Append(gpu, {id \in Drawn : Live(id)})
    /\ pc' = "update"
    /\ UNCHANGED <<textureVars, halfLoaded, panelId, authors>>

Render ==
    /\ Draw
    /\ UNCHANGED <<dialogVars, chatVars, reloaded, layer, chatIds>>

\* A click on the picture of the login or register panel.
RenderLoad ==
    /\ Draw
    /\ layer # "chat"
    /\ ClickLoad
    /\ UNCHANGED <<chatVars, reloaded, layer, chatIds>>

\* A click on "Register" or "Login".
RenderSwitch ==
    /\ Draw
    /\ layer # "chat"
    /\ layer' = IF layer = "login" THEN "register" ELSE "login"
    /\ UNCHANGED <<dialogVars, chatVars, reloaded, chatIds>>

\* Variant of Join: the chat window keeps the id it has.
JoinWithoutId(name, connected) ==
    /\ joins < MaxJoins
    /\ joins' = joins + 1
    /\ username' = name
    /\ asked' = asked \cup {name}
    /\ member' = IF connected THEN "asked" ELSE "out"
    /\ awaited' = (connected /\ ~hasPicture)
    /\ UNCHANGED <<hasPicture, chatIds>>

\* setOnLoginDataInput and setOnRegisterDataInput: onConnect, which sends the
\* picture or asks for it, and the id of the picture, connected or not.
Join(name, connected) ==
    /\ joins < MaxJoins
    /\ joins' = joins + 1
    /\ username' = name
    /\ asked' = asked \cup {name}
    /\ member' = IF connected THEN "asked" ELSE "out"
    /\ awaited' = (connected /\ ~hasPicture)
    /\ chatIds' = IF hasPicture THEN [chatIds EXCEPT ![name] = ClientId(client)]
                  ELSE chatIds
    /\ UNCHANGED hasPicture

RenderJoin(name) ==
    /\ Draw
    /\ layer # "chat"
    /\ \E connected \in BOOLEAN : Join(name, connected)
    /\ reloaded' = FALSE
    /\ UNCHANGED <<dialogVars, layer>>

\* A frame is finished.
GpuFinishes ==
    /\ gpu # <<>>
    /\ gpu' = Tail(gpu)
    /\ UNCHANGED <<dialogVars, chatVars, textureVars, loadVars, pc, layer, panelId,
                   chatIds, authors>>

DialogStep ==
    /\ DialogThreads
    /\ UNCHANGED <<chatVars, textureVars, loadVars, pc, layer, panelId, chatIds,
                   authors, gpu>>

Next ==
    \/ Accepted \/ TurnedAway \/ OwnPicture \/ InboxEmpty
    \/ \E n \in Names : ChatArrives(n) \/ OthersPicture(n) \/ RenderJoin(n)
    \/ NoPath \/ LoadPicture \/ LoadFails \/ ResizeFails
    \/ Minimized \/ Render \/ RenderLoad \/ RenderSwitch
    \/ GpuFinishes \/ DialogStep

Spec == Init /\ [][Next]_vars

-----------------------------------------------------------------------------
(* Properties.                                                             *)

\* A frame draws pictures that exist, beside whom they belong to.  In the login
\* and register panels always; in the chat also, but for names under which the
\* user has tried to join: if a file was loaded after the click that joined
\* (the dialog may be open still), if the user has tried more than one name, or
\* if a picture could not be resized, the chat window may keep the id of a
\* texture that is gone or never was, or show the user's picture beside another
\* (ClientApplication.cpp:63-113 and 139-192, Renderer.cpp:1357-1394).
FramesDrawRight ==
    pc = "render" =>
        /\ layer # "chat" => panelId = NoId \/ Live(panelId)
        /\ layer = "chat" =>
             \A n \in authors :
                 \/ chatIds[n] = NoId
                 \/ /\ Live(chatIds[n])
                    /\ owner[chatIds[n]] = n \/ (owner[chatIds[n]] = Mine /\ n = username)
                 \/ n \in asked /\ (reloaded \/ asked # {username} \/ halfLoaded)

\* No texture is destroyed that a frame in flight reads (Renderer.cpp:1057).
GpuReadsLive == \A i \in DOMAIN gpu : \A id \in gpu[i] : Live(id)

=============================================================================
