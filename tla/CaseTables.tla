------------------------------ MODULE CaseTables ------------------------------
(***************************************************************************)
(* The case conversion tables (libunicode-table.h:6-164), unpacked: an     *)
(* entry is the first character of a run, the length of the run, how its   *)
(* characters change, and the data that says to what, whose low byte is    *)
(* that of case_conv_table2.                                               *)
(***************************************************************************)

case_conv_table ==
  <<
    <<65, 26, "LF", 1>>, <<97, 26, "U", 0>>, <<181, 1, "UF_D20", 924>>, <<192, 23, "LF", 6>>,
    <<216, 7, "LF", 7>>, <<223, 1, "UF_EXT2", 845>>, <<224, 23, "U", 3>>, <<248, 7, "U", 4>>,
    <<255, 1, "U", 16>>, <<256, 48, "UL", 0>>, <<304, 1, "LF_EXT2", 911>>, <<305, 1, "U_EXT", 11>>,
    <<306, 6, "UL", 0>>, <<313, 16, "UL", 0>>, <<329, 1, "UF_EXT2", 1041>>, <<330, 46, "UL", 0>>,
    <<376, 1, "LF", 8>>, <<377, 6, "UL", 0>>, <<383, 1, "UF_D20", 83>>, <<384, 1, "U", 75>>,
    <<385, 1, "LF", 82>>, <<386, 4, "UL", 0>>, <<390, 1, "LF", 83>>, <<391, 2, "UL", 0>>,
    <<393, 2, "LF", 84>>, <<395, 2, "UL", 0>>, <<398, 1, "LF", 59>>, <<399, 1, "LF", 85>>,
    <<400, 1, "LF", 86>>, <<401, 2, "UL", 0>>, <<403, 1, "LF", 88>>, <<404, 1, "LF", 90>>,
    <<405, 1, "U", 64>>, <<406, 1, "LF", 95>>, <<407, 1, "LF", 94>>, <<408, 2, "UL", 0>>, <<410, 1, "U", 71>>,
    <<411, 1, "U", 336>>, <<412, 1, "LF", 99>>, <<413, 1, "LF", 101>>, <<414, 1, "U", 67>>,
    <<415, 1, "LF", 102>>, <<416, 6, "UL", 0>>, <<422, 1, "LF", 104>>, <<423, 2, "UL", 0>>,
    <<425, 1, "LF", 106>>, <<428, 2, "UL", 0>>, <<430, 1, "LF", 108>>, <<431, 2, "UL", 0>>,
    <<433, 2, "LF", 110>>, <<435, 4, "UL", 0>>, <<439, 1, "LF", 112>>, <<440, 2, "UL", 0>>,
    <<444, 2, "UL", 0>>, <<447, 1, "U", 65>>, <<452, 3, "LSU", 0>>, <<455, 3, "LSU", 0>>,
    <<458, 3, "LSU", 0>>, <<461, 16, "UL", 0>>, <<477, 1, "U", 26>>, <<478, 18, "UL", 0>>,
    <<496, 1, "UF_EXT2", 1171>>, <<497, 3, "LSU", 0>>, <<500, 2, "UL", 0>>, <<502, 1, "LF", 32>>,
    <<503, 1, "LF", 54>>, <<504, 40, "UL", 0>>, <<544, 1, "LF", 40>>, <<546, 18, "UL", 0>>,
    <<570, 1, "LF", 292>>, <<571, 2, "UL", 0>>, <<573, 1, "LF", 36>>, <<574, 1, "LF", 293>>,
    <<575, 2, "U", 301>>, <<577, 2, "UL", 0>>, <<579, 1, "LF", 19>>, <<580, 1, "LF", 109>>,
    <<581, 1, "LF", 111>>, <<582, 10, "UL", 0>>, <<592, 1, "U", 297>>, <<593, 1, "U", 295>>,
    <<594, 1, "U", 298>>, <<595, 1, "U", 20>>, <<596, 1, "U", 22>>, <<598, 2, "U", 24>>, <<601, 1, "U", 27>>,
    <<603, 1, "U", 28>>, <<604, 1, "U", 321>>, <<608, 1, "U", 30>>, <<609, 1, "U", 322>>, <<611, 1, "U", 31>>,
    <<612, 1, "U", 334>>, <<613, 1, "U", 316>>, <<614, 1, "U", 320>>, <<616, 1, "U", 34>>,
    <<617, 1, "U", 33>>, <<618, 1, "U", 324>>, <<619, 1, "U", 289>>, <<620, 1, "U", 323>>,
    <<623, 1, "U", 38>>, <<625, 1, "U", 296>>, <<626, 1, "U", 39>>, <<629, 1, "U", 41>>, <<637, 1, "U", 291>>,
    <<640, 1, "U", 43>>, <<642, 1, "U", 331>>, <<643, 1, "U", 45>>, <<647, 1, "U", 326>>, <<648, 1, "U", 47>>,
    <<649, 1, "U", 76>>, <<650, 2, "U", 49>>, <<652, 1, "U", 77>>, <<658, 1, "U", 51>>, <<669, 1, "U", 327>>,
    <<670, 1, "U", 325>>, <<837, 1, "UF_D20", 921>>, <<880, 4, "UL", 0>>, <<886, 2, "UL", 0>>,
    <<891, 3, "U", 151>>, <<895, 1, "LF", 145>>, <<902, 1, "LF", 127>>, <<904, 3, "LF", 128>>,
    <<908, 1, "LF", 133>>, <<910, 2, "LF", 134>>, <<912, 1, "UF_EXT3", 18>>, <<913, 17, "LF", 130>>,
    <<931, 9, "LF", 132>>, <<940, 1, "U", 120>>, <<941, 3, "U", 121>>, <<944, 1, "UF_EXT3", 786>>,
    <<945, 17, "U", 125>>, <<962, 1, "UF_D20", 931>>, <<963, 9, "U", 126>>, <<972, 1, "U", 122>>,
    <<973, 2, "U", 123>>, <<975, 1, "LF", 140>>, <<976, 1, "UF_D20", 914>>, <<977, 1, "UF_D20", 920>>,
    <<981, 1, "UF_D20", 934>>, <<982, 1, "UF_D20", 928>>, <<983, 1, "U", 135>>, <<984, 24, "UL", 0>>,
    <<1008, 1, "UF_D20", 922>>, <<1009, 1, "UF_D20", 929>>, <<1010, 1, "U", 149>>, <<1011, 1, "U", 119>>,
    <<1012, 1, "LF_EXT", 51>>, <<1013, 1, "UF_D20", 917>>, <<1015, 2, "UL", 0>>, <<1017, 1, "LF", 144>>,
    <<1018, 2, "UL", 0>>, <<1021, 3, "LF", 118>>, <<1024, 16, "LF", 155>>, <<1040, 32, "LF", 154>>,
    <<1072, 32, "U", 153>>, <<1104, 16, "U", 152>>, <<1120, 34, "UL", 0>>, <<1162, 54, "UL", 0>>,
    <<1216, 1, "LF", 160>>, <<1217, 14, "UL", 0>>, <<1231, 1, "U", 158>>, <<1232, 96, "UL", 0>>,
    <<1329, 38, "LF", 163>>, <<1377, 38, "U", 162>>, <<1415, 1, "UF_EXT2", 1301>>, <<4256, 38, "LF", 305>>,
    <<4295, 1, "LF", 306>>, <<4301, 1, "LF", 307>>, <<4304, 43, "U", 183>>, <<4349, 3, "U", 184>>,
    <<5024, 80, "L", 339>>, <<5104, 6, "L", 172>>, <<5112, 6, "UF", 171>>, <<7296, 1, "UF_D20", 1042>>,
    <<7297, 1, "UF_D20", 1044>>, <<7298, 1, "UF_D20", 1054>>, <<7299, 1, "UF_D20", 1057>>,
    <<7300, 1, "UF_D20", 1058>>, <<7301, 1, "UF_D20", 1058>>, <<7302, 1, "UF_D20", 1066>>,
    <<7303, 1, "UF_D1_EXT", 52>>, <<7304, 1, "UF_D1_EXT", 53>>, <<7305, 2, "UL", 0>>, <<7312, 43, "LF", 168>>,
    <<7357, 3, "LF", 169>>, <<7545, 1, "U", 313>>, <<7549, 1, "U", 290>>, <<7566, 1, "U", 332>>,
    <<7680, 126, "UL", 0>>, <<7806, 24, "UL", 0>>, <<7830, 1, "UF_EXT2", 1431>>, <<7831, 1, "UF_EXT2", 1537>>,
    <<7832, 1, "UF_EXT2", 1626>>, <<7833, 1, "UF_EXT2", 1754>>, <<7834, 1, "UF_EXT2", 1821>>,
    <<7835, 1, "UF_D1_EXT", 54>>, <<7838, 1, "LF", 5>>, <<7840, 96, "UL", 0>>, <<7936, 8, "U", 199>>,
    <<7944, 8, "LF", 198>>, <<7952, 6, "U", 201>>, <<7960, 6, "LF", 200>>, <<7968, 8, "U", 203>>,
    <<7976, 8, "LF", 202>>, <<7984, 8, "U", 205>>, <<7992, 8, "LF", 204>>, <<8000, 6, "U", 207>>,
    <<8008, 6, "LF", 206>>, <<8016, 1, "UF_EXT2", 196>>, <<8017, 1, "U", 216>>, <<8018, 1, "UF_EXT3", 837>>,
    <<8019, 1, "U", 217>>, <<8020, 1, "UF_EXT3", 834>>, <<8021, 1, "U", 218>>, <<8022, 1, "UF_EXT3", 838>>,
    <<8023, 1, "U", 219>>, <<8025, 1, "LF", 209>>, <<8027, 1, "LF", 211>>, <<8029, 1, "LF", 213>>,
    <<8031, 1, "LF", 215>>, <<8032, 8, "U", 221>>, <<8040, 8, "LF", 220>>, <<8048, 2, "U", 241>>,
    <<8050, 4, "U", 249>>, <<8054, 2, "U", 257>>, <<8056, 2, "U", 273>>, <<8058, 2, "U", 266>>,
    <<8060, 2, "U", 274>>, <<8064, 8, "UF_EXT2", 1920>>, <<8072, 8, "U2L_399_EXT2", 1951>>,
    <<8080, 8, "UF_EXT2", 2048>>, <<8088, 8, "U2L_399_EXT2", 2081>>, <<8096, 8, "UF_EXT2", 2176>>,
    <<8104, 8, "U2L_399_EXT2", 2211>>, <<8112, 2, "U", 240>>, <<8114, 1, "UF_EXT2", 2304>>,
    <<8115, 1, "UF_EXT2", 448>>, <<8116, 1, "UF_EXT2", 2368>>, <<8118, 1, "UF_EXT2", 454>>,
    <<8119, 1, "UF_EXT3", 1888>>, <<8120, 2, "LF", 234>>, <<8122, 2, "LF", 222>>,
    <<8124, 1, "U2L_399_EXT2", 486>>, <<8126, 1, "UF_D20", 921>>, <<8130, 1, "UF_EXT2", 2496>>,
    <<8131, 1, "UF_EXT2", 512>>, <<8132, 1, "UF_EXT2", 2560>>, <<8134, 1, "UF_EXT2", 518>>,
    <<8135, 1, "UF_EXT3", 2144>>, <<8136, 4, "LF", 223>>, <<8140, 1, "U2L_399_EXT2", 553>>,
    <<8144, 2, "U", 256>>, <<8146, 1, "UF_EXT3", 21>>, <<8147, 1, "UF_EXT3", 18>>, <<8150, 1, "UF_EXT2", 6>>,
    <<8151, 1, "UF_EXT3", 22>>, <<8152, 2, "LF", 251>>, <<8154, 2, "LF", 224>>, <<8160, 2, "U", 265>>,
    <<8162, 1, "UF_EXT3", 789>>, <<8163, 1, "UF_EXT3", 786>>, <<8164, 1, "UF_EXT2", 2692>>,
    <<8165, 1, "U", 267>>, <<8166, 1, "UF_EXT2", 198>>, <<8167, 1, "UF_EXT3", 790>>, <<8168, 2, "LF", 258>>,
    <<8170, 2, "LF", 226>>, <<8172, 1, "LF", 262>>, <<8178, 1, "UF_EXT2", 2752>>, <<8179, 1, "UF_EXT2", 576>>,
    <<8180, 1, "UF_EXT2", 2816>>, <<8182, 1, "UF_EXT2", 582>>, <<8183, 1, "UF_EXT3", 2400>>,
    <<8184, 2, "LF", 225>>, <<8186, 2, "LF", 227>>, <<8188, 1, "U2L_399_EXT2", 621>>,
    <<8486, 1, "LF_EXT", 55>>, <<8490, 1, "LF_EXT", 56>>, <<8491, 1, "LF_EXT", 57>>, <<8498, 1, "LF", 280>>,
    <<8526, 1, "U", 279>>, <<8544, 16, "LF", 282>>, <<8560, 16, "U", 281>>, <<8579, 2, "UL", 0>>,
    <<9398, 26, "LF", 285>>, <<9424, 26, "U", 284>>, <<11264, 48, "LF", 287>>, <<11312, 48, "U", 286>>,
    <<11360, 2, "UL", 0>>, <<11362, 1, "LF", 97>>, <<11363, 1, "LF", 186>>, <<11364, 1, "LF", 103>>,
    <<11365, 1, "U", 69>>, <<11366, 1, "U", 72>>, <<11367, 6, "UL", 0>>, <<11373, 1, "LF", 80>>,
    <<11374, 1, "LF", 100>>, <<11375, 1, "LF", 79>>, <<11376, 1, "LF", 81>>, <<11378, 2, "UL", 0>>,
    <<11381, 2, "UL", 0>>, <<11390, 2, "LF", 73>>, <<11392, 100, "UL", 0>>, <<11499, 4, "UL", 0>>,
    <<11506, 2, "UL", 0>>, <<11520, 38, "U", 165>>, <<11559, 1, "U", 166>>, <<11565, 1, "U", 167>>,
    <<42560, 46, "UL", 0>>, <<42624, 28, "UL", 0>>, <<42786, 14, "UL", 0>>, <<42802, 62, "UL", 0>>,
    <<42873, 4, "UL", 0>>, <<42877, 1, "LF", 185>>, <<42878, 10, "UL", 0>>, <<42891, 2, "UL", 0>>,
    <<42893, 1, "LF", 92>>, <<42896, 4, "UL", 0>>, <<42900, 1, "U", 330>>, <<42902, 20, "UL", 0>>,
    <<42922, 1, "LF", 93>>, <<42923, 1, "LF", 87>>, <<42924, 1, "LF", 89>>, <<42925, 1, "LF", 98>>,
    <<42926, 1, "LF", 96>>, <<42928, 1, "LF", 114>>, <<42929, 1, "LF", 107>>, <<42930, 1, "LF", 113>>,
    <<42931, 1, "LF", 338>>, <<42932, 16, "UL", 0>>, <<42948, 1, "LF", 318>>, <<42949, 1, "LF", 105>>,
    <<42950, 1, "LF", 187>>, <<42951, 4, "UL", 0>>, <<42955, 1, "LF", 91>>, <<42956, 16, "UL", 0>>,
    <<42972, 1, "LF", 37>>, <<42997, 2, "UL", 0>>, <<43859, 1, "U", 328>>, <<43888, 80, "UF", 170>>,
    <<64256, 1, "UF_EXT2", 650>>, <<64257, 1, "UF_EXT2", 651>>, <<64258, 1, "UF_EXT2", 652>>,
    <<64259, 1, "UF_EXT3", 2731>>, <<64260, 1, "UF_EXT3", 2732>>, <<64261, 1, "UF_EXT2", 856>>,
    <<64262, 1, "UF_EXT2", 856>>, <<64275, 1, "UF_EXT2", 2991>>, <<64276, 1, "UF_EXT2", 2964>>,
    <<64277, 1, "UF_EXT2", 2992>>, <<64278, 1, "UF_EXT2", 3183>>, <<64279, 1, "UF_EXT2", 2994>>,
    <<65313, 26, "LF", 353>>, <<65345, 26, "U", 352>>, <<66560, 40, "LF", 355>>, <<66600, 40, "U", 354>>,
    <<66736, 36, "LF", 357>>, <<66776, 36, "U", 356>>, <<66928, 11, "LF", 362>>, <<66940, 15, "LF", 363>>,
    <<66956, 7, "LF", 364>>, <<66964, 2, "LF", 365>>, <<66967, 11, "U", 358>>, <<66979, 15, "U", 359>>,
    <<66995, 7, "U", 360>>, <<67003, 2, "U", 361>>, <<68736, 51, "LF", 367>>, <<68800, 51, "U", 366>>,
    <<68944, 22, "LF", 369>>, <<68976, 22, "U", 368>>, <<71840, 32, "LF", 371>>, <<71872, 32, "U", 370>>,
    <<93760, 32, "LF", 373>>, <<93792, 32, "U", 372>>, <<93856, 25, "LF", 375>>, <<93883, 25, "U", 374>>,
    <<125184, 34, "LF", 377>>, <<125218, 34, "U", 376>>>>

case_conv_ext ==
  <<
    921, 776, 769, 933, 787, 768, 834, 913, 919, 937, 70, 73, 76, 83, 105, 775, 700, 78, 74, 780, 1333, 1362,
    72, 817, 84, 87, 778, 89, 65, 702, 7944, 8064, 7976, 8080, 8040, 8096, 8122, 902, 8115, 8138, 905, 8131,
    929, 8186, 911, 8179, 1348, 1350, 1339, 1358, 1341, 952, 1122, 42570, 7776, 969, 107, 229>>
================================================================================
