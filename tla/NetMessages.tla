----------------------------- MODULE NetMessages -----------------------------
(***************************************************************************)
(* The protobuf messages of the network protocol, as their generated       *)
(* codecs (src/src/generated/netmessages.ts, cstrike15_usermessages.ts)    *)
(* write and read them: the number and the kind of every field, and how    *)
(* often it may occur.                                                     *)
(***************************************************************************)
EXTENDS Naturals

LOCAL Scalar(n, k) == [number |-> n, kind |-> k, of |-> "", occurs |-> "once"]

int32(n) == Scalar(n, "int32")
uint32(n) == Scalar(n, "uint32")
sint32(n) == Scalar(n, "sint32")
uint64(n) == Scalar(n, "uint64")
bool(n) == Scalar(n, "bool")
float(n) == Scalar(n, "float")
fixed32(n) == Scalar(n, "fixed32")
fixed64(n) == Scalar(n, "fixed64")
string(n) == Scalar(n, "string")
bytes(n) == Scalar(n, "bytes")
nested(n, type) == [Scalar(n, "message") EXCEPT !.of = type]

\* A list, each of whose elements has a tag; `many' is also read packed, under one.
each(field) == [field EXCEPT !.occurs = "each"]
many(field) == [field EXCEPT !.occurs = "many"]
repeated(n, type) == each(nested(n, type))

-----------------------------------------------------------------------------
(* Vectors and colours. *)

CMsgVector == [x |-> float(1), y |-> float(2), z |-> float(3)]
CMsgVector2D == [x |-> float(1), y |-> float(2)]
CMsgQAngle == [x |-> float(1), y |-> float(2), z |-> float(3)]
CMsgRGBA == [r |-> int32(1), g |-> int32(2), b |-> int32(3), a |-> int32(4)]
CMsgCVars == [cvars |-> repeated(1, "CMsgCVars_CVar")]
CMsgCVars_CVar == [name |-> string(1), value |-> string(2), dictionaryName |-> uint32(3)]

-----------------------------------------------------------------------------
(* Messages of both sides. *)

CNETMsgTick ==
  [tick |-> uint32(1), hostComputationtime |-> uint32(4),
    hostComputationtimeStdDeviation |-> uint32(5), hostFramestarttimeStdDeviation |-> uint32(6),
    hltvReplayFlags |-> uint32(7)]
CNETMsgStringCmd == [command |-> string(1)]
CNETMsgSignonState ==
  [signonState |-> uint32(1), spawnCount |-> uint32(2), numServerPlayers |-> uint32(3),
    playersNetworkids |-> each(string(4)), mapName |-> string(5)]
CNETMsgSetConVar == [convars |-> nested(1, "CMsgCVars")]
CNETMsgNOP == <<>>
CNETMsgDisconnect == [text |-> string(1)]
CNETMsgFile ==
  [transferId |-> int32(1), fileName |-> string(2), isReplayDemoFile |-> bool(3),
    deny |-> bool(4)]
CNETMsgSplitScreenUser == [slot |-> int32(1)]
CNETMsgPlayerAvatarData == [accountid |-> uint32(1), rgb |-> bytes(2)]

-----------------------------------------------------------------------------
(* Messages of a client. *)

CCLCMsgClientInfo ==
  [sendTableCrc |-> fixed32(1), serverCount |-> uint32(2), isHltv |-> bool(3),
    isReplay |-> bool(4), friendsId |-> uint32(5), friendsName |-> string(6),
    customFiles |-> many(fixed32(7))]
CCLCMsgMove ==
  [numBackupCommands |-> uint32(1), numNewCommands |-> uint32(2), data |-> bytes(3)]
CCLCMsgVoiceData ==
  [data |-> bytes(1), xuid |-> fixed64(2), format |-> int32(3), sequenceBytes |-> int32(4),
    sectionNumber |-> uint32(5), uncompressedSampleOffset |-> uint32(6)]
CCLCMsgBaselineAck == [baselineTick |-> int32(1), baselineNr |-> int32(2)]
CCLCMsgListenEvents == [eventMask |-> many(fixed32(1))]
CCLCMsgRespondCvarValue ==
  [cookie |-> int32(1), statusCode |-> int32(2), name |-> string(3), value |-> string(4)]
CCLCMsgFileCRCCheck ==
  [codePath |-> int32(1), path |-> string(2), codeFilename |-> int32(3), filename |-> string(4),
    fileFraction |-> int32(5), md5 |-> bytes(6), crc |-> uint32(7), fileHashType |-> int32(8),
    fileLen |-> int32(9), packFileId |-> int32(10), packFileNumber |-> int32(11)]
CCLCMsgLoadingProgress == [progress |-> int32(1)]
CCLCMsgSplitPlayerConnect == [convars |-> nested(1, "CMsgCVars")]
CCLCMsgCmdKeyValues == [keyvalues |-> bytes(1)]
CCLCMsgHltvReplay ==
  [request |-> int32(1), slowdownLength |-> float(2), slowdownRate |-> float(3),
    primaryTargetEntIndex |-> int32(4), eventTime |-> float(5)]

-----------------------------------------------------------------------------
(* Messages of the server. *)

CSVCMsgServerInfo ==
  [protocol |-> int32(1), serverCount |-> int32(2), isDedicated |-> bool(3),
    isOfficialValveServer |-> bool(4), isHltv |-> bool(5), isReplay |-> bool(6),
    cOs |-> int32(7), mapCrc |-> fixed32(8), clientCrc |-> fixed32(9),
    stringTableCrc |-> fixed32(10), maxClients |-> int32(11), maxClasses |-> int32(12),
    playerSlot |-> int32(13), tickInterval |-> float(14), gameDir |-> string(15),
    mapName |-> string(16), mapGroupName |-> string(17), skyName |-> string(18),
    hostName |-> string(19), publicIp |-> uint32(20), isRedirectingToProxyRelay |-> bool(21),
    ugcMapId |-> uint64(22)]
CSVCMsgClassInfo ==
  [createOnClient |-> bool(1), classes |-> repeated(2, "CSVCMsgClassInfo_classT")]
CSVCMsgClassInfo_classT ==
  [classId |-> int32(1), dataTableName |-> string(2), className |-> string(3)]
CSVCMsgSendTable ==
  [isEnd |-> bool(1), netTableName |-> string(2), needsDecoder |-> bool(3),
    props |-> repeated(4, "CSVCMsgSendTable_sendpropT")]
CSVCMsgSendTable_sendpropT ==
  [type |-> int32(1), varName |-> string(2), flags |-> int32(3), priority |-> int32(4),
    dtName |-> string(5), numElements |-> int32(6), lowValue |-> float(7),
    highValue |-> float(8), numBits |-> int32(9)]
CSVCMsgPrint == [text |-> string(1)]
CSVCMsgSetPause == [paused |-> bool(1)]
CSVCMsgSetView == [entityIndex |-> int32(1)]
CSVCMsgCreateStringTable ==
  [name |-> string(1), maxEntries |-> int32(2), numEntries |-> int32(3),
    userDataFixedSize |-> bool(4), userDataSize |-> int32(5), userDataSizeBits |-> int32(6),
    flags |-> int32(7), stringData |-> bytes(8)]
CSVCMsgUpdateStringTable ==
  [tableId |-> int32(1), numChangedEntries |-> int32(2), stringData |-> bytes(3)]
CSVCMsgVoiceInit == [quality |-> int32(1), codec |-> string(2), version |-> int32(3)]
CSVCMsgVoiceData ==
  [client |-> int32(1), proximity |-> bool(2), xuid |-> fixed64(3), audibleMask |-> int32(4),
    voiceData |-> bytes(5), caster |-> bool(6), format |-> int32(7), sequenceBytes |-> int32(8),
    sectionNumber |-> uint32(9), uncompressedSampleOffset |-> uint32(10)]
CSVCMsgFixAngle == [relative |-> bool(1), angle |-> nested(2, "CMsgQAngle")]
CSVCMsgCrosshairAngle == [angle |-> nested(1, "CMsgQAngle")]
CSVCMsgPrefetch == [soundIndex |-> int32(1)]
CSVCMsgBSPDecal ==
  [pos |-> nested(1, "CMsgVector"), decalTextureIndex |-> int32(2), entityIndex |-> int32(3),
    modelIndex |-> int32(4), lowPriority |-> bool(5)]
CSVCMsgSplitScreen == [type |-> int32(1), slot |-> int32(2), playerIndex |-> int32(3)]
CSVCMsgGetCvarValue == [cookie |-> int32(1), cvarName |-> string(2)]
CSVCMsgMenu == [dialogType |-> int32(1), menuKeyValues |-> bytes(2)]
CSVCMsgUserMessage == [msgType |-> int32(1), msgData |-> bytes(2), passthrough |-> int32(3)]
CSVCMsgPaintmapData == [paintmap |-> bytes(1)]
CSVCMsgGameEvent ==
  [eventName |-> string(1), eventid |-> int32(2), keys |-> repeated(3, "CSVCMsgGameEvent_keyT"),
    passthrough |-> int32(4)]
CSVCMsgGameEvent_keyT ==
  [type |-> int32(1), valString |-> string(2), valFloat |-> float(3), valLong |-> int32(4),
    valShort |-> int32(5), valByte |-> int32(6), valBool |-> bool(7), valUint64 |-> uint64(8),
    valWstring |-> bytes(9)]
CSVCMsgGameEventList == [descriptors |-> repeated(1, "CSVCMsgGameEventList_descriptorT")]
CSVCMsgGameEventList_keyT == [type |-> int32(1), name |-> string(2)]
CSVCMsgGameEventList_descriptorT ==
  [eventid |-> int32(1), name |-> string(2), keys |-> repeated(3, "CSVCMsgGameEventList_keyT")]
CSVCMsgTempEntities == [reliable |-> bool(1), numEntries |-> int32(2), entityData |-> bytes(3)]
CSVCMsgPacketEntities ==
  [maxEntries |-> int32(1), updatedEntries |-> int32(2), isDelta |-> bool(3),
    updateBaseline |-> bool(4), baseline |-> int32(5), deltaFrom |-> int32(6),
    entityData |-> bytes(7)]
CSVCMsgSounds ==
  [reliableSound |-> bool(1), sounds |-> repeated(2, "CSVCMsgSounds_sounddataT")]
CSVCMsgSounds_sounddataT ==
  [originX |-> sint32(1), originY |-> sint32(2), originZ |-> sint32(3), volume |-> uint32(4),
    delayValue |-> float(5), sequenceNumber |-> int32(6), entityIndex |-> int32(7),
    channel |-> int32(8), pitch |-> int32(9), flags |-> int32(10), soundNum |-> uint32(11),
    soundNumHandle |-> fixed32(12), speakerEntity |-> int32(13), randomSeed |-> int32(14),
    soundLevel |-> int32(15), isSentence |-> bool(16), isAmbient |-> bool(17)]
CSVCMsgEntityMsg == [entIndex |-> int32(1), classId |-> int32(2), entData |-> bytes(3)]
CSVCMsgCmdKeyValues == [keyvalues |-> bytes(1)]
CSVCMsgEncryptedData == [encrypted |-> bytes(1), keyType |-> int32(2)]
CSVCMsgHltvReplay ==
  [delay |-> int32(1), primaryTarget |-> int32(2), replayStopAt |-> int32(3),
    replayStartAt |-> int32(4), replaySlowdownBegin |-> int32(5),
    replaySlowdownEnd |-> int32(6), replaySlowdownRate |-> float(7)]
CSVCMsgBroadcastCommand == [cmd |-> string(1)]

-----------------------------------------------------------------------------
(* Chat (cstrike15_usermessages.ts). *)

CCSUsrMsgSayText ==
  [entIdx |-> int32(1), text |-> string(2), chat |-> bool(3), textallchat |-> bool(4)]
CCSUsrMsgSayText2 ==
  [entIdx |-> int32(1), chat |-> bool(2), msgName |-> string(3), params |-> each(string(4)),
    textallchat |-> bool(5)]
CCSUsrMsgTextMsg == [msgDst |-> int32(1), params |-> each(string(3))]


-----------------------------------------------------------------------------

\* By name.
messages ==
  [CMsgVector |-> CMsgVector, CMsgVector2D |-> CMsgVector2D, CMsgQAngle |-> CMsgQAngle,
    CMsgRGBA |-> CMsgRGBA, CNETMsgTick |-> CNETMsgTick, CNETMsgStringCmd |-> CNETMsgStringCmd,
    CNETMsgSignonState |-> CNETMsgSignonState, CMsgCVars |-> CMsgCVars,
    CMsgCVars_CVar |-> CMsgCVars_CVar, CNETMsgSetConVar |-> CNETMsgSetConVar,
    CNETMsgNOP |-> CNETMsgNOP, CNETMsgDisconnect |-> CNETMsgDisconnect,
    CNETMsgFile |-> CNETMsgFile, CNETMsgSplitScreenUser |-> CNETMsgSplitScreenUser,
    CNETMsgPlayerAvatarData |-> CNETMsgPlayerAvatarData,
    CCLCMsgClientInfo |-> CCLCMsgClientInfo, CCLCMsgMove |-> CCLCMsgMove,
    CCLCMsgVoiceData |-> CCLCMsgVoiceData, CCLCMsgBaselineAck |-> CCLCMsgBaselineAck,
    CCLCMsgListenEvents |-> CCLCMsgListenEvents,
    CCLCMsgRespondCvarValue |-> CCLCMsgRespondCvarValue,
    CCLCMsgFileCRCCheck |-> CCLCMsgFileCRCCheck,
    CCLCMsgLoadingProgress |-> CCLCMsgLoadingProgress,
    CCLCMsgSplitPlayerConnect |-> CCLCMsgSplitPlayerConnect,
    CCLCMsgCmdKeyValues |-> CCLCMsgCmdKeyValues, CSVCMsgServerInfo |-> CSVCMsgServerInfo,
    CSVCMsgClassInfo |-> CSVCMsgClassInfo, CSVCMsgClassInfo_classT |-> CSVCMsgClassInfo_classT,
    CSVCMsgSendTable |-> CSVCMsgSendTable,
    CSVCMsgSendTable_sendpropT |-> CSVCMsgSendTable_sendpropT, CSVCMsgPrint |-> CSVCMsgPrint,
    CSVCMsgSetPause |-> CSVCMsgSetPause, CSVCMsgSetView |-> CSVCMsgSetView,
    CSVCMsgCreateStringTable |-> CSVCMsgCreateStringTable,
    CSVCMsgUpdateStringTable |-> CSVCMsgUpdateStringTable,
    CSVCMsgVoiceInit |-> CSVCMsgVoiceInit, CSVCMsgVoiceData |-> CSVCMsgVoiceData,
    CSVCMsgFixAngle |-> CSVCMsgFixAngle, CSVCMsgCrosshairAngle |-> CSVCMsgCrosshairAngle,
    CSVCMsgPrefetch |-> CSVCMsgPrefetch, CSVCMsgBSPDecal |-> CSVCMsgBSPDecal,
    CSVCMsgSplitScreen |-> CSVCMsgSplitScreen, CSVCMsgGetCvarValue |-> CSVCMsgGetCvarValue,
    CSVCMsgMenu |-> CSVCMsgMenu, CSVCMsgUserMessage |-> CSVCMsgUserMessage,
    CSVCMsgPaintmapData |-> CSVCMsgPaintmapData, CSVCMsgGameEvent |-> CSVCMsgGameEvent,
    CSVCMsgGameEvent_keyT |-> CSVCMsgGameEvent_keyT,
    CSVCMsgGameEventList |-> CSVCMsgGameEventList,
    CSVCMsgGameEventList_keyT |-> CSVCMsgGameEventList_keyT,
    CSVCMsgGameEventList_descriptorT |-> CSVCMsgGameEventList_descriptorT,
    CSVCMsgTempEntities |-> CSVCMsgTempEntities,
    CSVCMsgPacketEntities |-> CSVCMsgPacketEntities, CSVCMsgSounds |-> CSVCMsgSounds,
    CSVCMsgSounds_sounddataT |-> CSVCMsgSounds_sounddataT,
    CSVCMsgEntityMsg |-> CSVCMsgEntityMsg, CSVCMsgCmdKeyValues |-> CSVCMsgCmdKeyValues,
    CSVCMsgEncryptedData |-> CSVCMsgEncryptedData, CSVCMsgHltvReplay |-> CSVCMsgHltvReplay,
    CCLCMsgHltvReplay |-> CCLCMsgHltvReplay,
    CSVCMsgBroadcastCommand |-> CSVCMsgBroadcastCommand, CCSUsrMsgSayText |-> CCSUsrMsgSayText,
    CCSUsrMsgSayText2 |-> CCSUsrMsgSayText2, CCSUsrMsgTextMsg |-> CCSUsrMsgTextMsg]
=============================================================================
