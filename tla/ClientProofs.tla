----------------------------- MODULE ClientProofs -----------------------------
(***************************************************************************)
(* The client as TLC runs it: one part moves and the others rest.  Every   *)
(* part behaves as its own module says, so that what is proved of it there *)
(* holds of the client, whichever of the parts it is that moves.           *)
(***************************************************************************)
EXTENDS MCClientParts, ClientPartsProofs, ChatTimelineProofs, VoiceParticipantsProofs,
        GuildSelectionProofs

\* A step of the client is a step of every part, or leaves the part alone.
LEMMA PartsStep ==
  ASSUME [ClientNext]_clientVars
  PROVE  /\ [LinkNext]_linkVars /\ [ChatNext]_chatVars /\ [PartyNext]_partyVars
         /\ [GuildNext]_guildVars /\ [PlaybackNext]_playbackVars /\ [AudioNext]_audioVars
         /\ [CaptureNext]_captureVars /\ [RestNext]_restVars /\ [FilterNext]_filterVars
<1>1. CASE UNCHANGED clientVars
  BY <1>1 DEF clientVars
<1>2. CASE LinkMoves
  BY <1>2 DEF LinkMoves, Others
<1>3. CASE ChatMoves
  BY <1>3 DEF ChatMoves, Others
<1>4. CASE PartyMoves
  BY <1>4 DEF PartyMoves, Others
<1>5. CASE GuildMoves
  BY <1>5 DEF GuildMoves, Others
<1>6. CASE PlaybackMoves
  BY <1>6 DEF PlaybackMoves, Others
<1>7. CASE AudioMoves
  BY <1>7 DEF AudioMoves, Others
<1>8. CASE CaptureMoves
  BY <1>8 DEF CaptureMoves, Others
<1>9. CASE RestMoves
  BY <1>9 DEF RestMoves, Others
<1>10. CASE FilterMoves
  BY <1>10 DEF FilterMoves, Others
<1>11. QED
  BY <1>1, <1>2, <1>3, <1>4, <1>5, <1>6, <1>7, <1>8, <1>9, <1>10 DEF ClientNext

\* Every part of the client behaves as its own specification says.
THEOREM ClientRunsParts ==
  ClientSpec => /\ LinkSpec /\ ChatSpec /\ PartySpec /\ GuildSpec /\ PlaybackSpec
                /\ AudioSpec /\ CaptureSpec /\ RestSpec /\ FilterSpec
<1>1. ClientInit => /\ LinkInit /\ ChatInit /\ PartyInit /\ GuildInit /\ PlaybackInit
                    /\ AudioInit /\ CaptureInit /\ RestInit /\ FilterInit
  BY DEF ClientInit
<1>2. [ClientNext]_clientVars =>
         /\ [LinkNext]_linkVars /\ [ChatNext]_chatVars /\ [PartyNext]_partyVars
         /\ [GuildNext]_guildVars /\ [PlaybackNext]_playbackVars /\ [AudioNext]_audioVars
         /\ [CaptureNext]_captureVars /\ [RestNext]_restVars /\ [FilterNext]_filterVars
  BY PartsStep
<1>3. ClientSpec => ClientInit /\ [][ClientNext]_clientVars
  BY PTL DEF ClientSpec
<1>4. ClientSpec => LinkSpec /\ ChatSpec /\ PartySpec
  BY <1>1, <1>2, <1>3, PTL DEF LinkSpec, ChatSpec, PartySpec
<1>5. ClientSpec => GuildSpec /\ PlaybackSpec /\ AudioSpec
  BY <1>1, <1>2, <1>3, PTL DEF GuildSpec, PlaybackSpec, AudioSpec
<1>6. ClientSpec => CaptureSpec /\ RestSpec /\ FilterSpec
  BY <1>1, <1>2, <1>3, PTL DEF CaptureSpec, RestSpec, FilterSpec
<1>7. QED
  BY <1>4, <1>5, <1>6

\* In every part the variables keep their types.
THEOREM ClientIsTyped == ClientSpec => []ClientTypeOK
<1>1. LinkInv => LinkTypeOK
  BY DEF LinkInv, ClientInv
<1>2. PlaybackInv => PlaybackTypeOK
  BY DEF PlaybackInv
<1>3. CaptureInv => CaptureTypeOK
  BY DEF CaptureInv
<1>4. RestInv => RestTypeOK
  BY DEF RestInv
<1>5. ClientSpec => [](LinkTypeOK /\ PlaybackTypeOK /\ CaptureTypeOK /\ RestTypeOK)
  BY <1>1, <1>2, <1>3, <1>4, ClientRunsParts, LinkInvariant, PlaybackInvariant, CaptureInvariant,
     RestInvariant, PTL
<1>6. ClientSpec => [](ChatTypeOK /\ PartyTypeOK /\ GuildTypeOK /\ AudioTypeOK /\ FilterTypeOK)
  BY ClientRunsParts, TimelineTypes, PartyIsTyped, GuildIsTyped, AudioInvariant, AudioTypes,
     FilterTypes, PTL
<1>7. QED
  BY <1>5, <1>6, PTL DEF ClientTypeOK

\* What is proved of the parts holds of the client.
THEOREM ClientIsSound ==
  ClientSpec => [](/\ LinkSound /\ TimelineSound /\ PartySound /\ GuildSound /\ PlaybackSound
                   /\ AudioSound /\ CaptureSound /\ RestSound /\ FilterSound)
BY ClientRunsParts, LinkIsSound, TimelineIsSound, PartyIsSound, GuildIsSound, PlaybackIsSound,
   AudioIsSound, CaptureIsSound, RestIsSound, FilterIsSound, PTL
=============================================================================
