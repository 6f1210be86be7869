------------------------------ MODULE PropTables ------------------------------
(***************************************************************************)
(* Properties of characters, in run-length encoding (libunicode-table.h:   *)
(* 166-635): an index of <<character, offset>>, where the run that starts  *)
(* at this character is at the offset from a block of 32 bytes of a table. *)
(***************************************************************************)

Cased1_table ==
  <<
    64, 169, 128, 142, 128, 252, 128, 211, 128, 155, 129, 141, 2, 128, 225, 128, 145, 133, 154, 1, 0, 1, 17,
    3, 4, 8, 1, 8, 48, 8, 1, 21, 32, 1, 49, 153, 49, 157, 132, 64, 148, 128, 214, 130, 166, 128, 65, 98, 128,
    166, 128, 75, 114, 128, 76, 2, 248, 2, 128, 143, 128, 176, 64, 219, 8, 128, 65, 208, 128, 140, 128, 143,
    140, 228, 3, 1, 137, 0, 20, 40, 16, 17, 2, 1, 24, 11, 36, 75, 38, 1, 1, 134, 229, 128, 96, 121, 182, 129,
    64, 145, 129, 189, 136, 148, 5, 128, 152, 128, 192, 26, 130, 67, 52, 162, 6, 128, 141, 96, 92, 21, 1, 16,
    169, 128, 136, 96, 204, 68, 212, 128, 198, 1, 8, 9, 11, 128, 139, 0, 6, 128, 192, 3, 15, 6, 128, 155, 3,
    4, 0, 22, 128, 65, 83, 129, 152, 128, 152, 128, 158, 128, 152, 128, 158, 128, 152, 128, 158, 128, 152,
    128, 158, 128, 152, 7, 71, 51, 137, 128, 147, 45, 65, 4, 189, 80, 193, 153, 133, 153, 133, 153>>

Cased1_index ==
  <<
    <<697, 4>>, <<7840, 2>>, <<42654, 2>>, <<119893, 1>>, <<120597, 1>>, <<127370, 0>>>>

Case_Ignorable_table ==
  <<
    166, 5, 128, 138, 128, 162, 0, 128, 198, 3, 0, 3, 1, 129, 65, 246, 64, 191, 25, 24, 136, 8, 128, 64, 250,
    134, 64, 206, 4, 128, 176, 172, 0, 1, 1, 0, 171, 128, 138, 133, 137, 138, 0, 162, 128, 137, 148, 143, 128,
    228, 56, 137, 3, 160, 0, 128, 157, 154, 218, 138, 185, 138, 24, 8, 151, 151, 170, 130, 171, 6, 12, 136,
    168, 185, 182, 0, 3, 59, 2, 134, 137, 129, 140, 128, 142, 128, 185, 3, 31, 128, 147, 129, 153, 1, 129,
    184, 3, 11, 9, 18, 128, 157, 10, 128, 138, 129, 184, 3, 32, 11, 128, 147, 129, 149, 40, 128, 185, 1, 0,
    31, 6, 129, 138, 129, 157, 128, 188, 128, 139, 128, 177, 2, 128, 182, 0, 20, 16, 30, 129, 138, 129, 156,
    128, 185, 1, 5, 4, 129, 147, 129, 155, 129, 184, 11, 31, 128, 147, 129, 156, 128, 199, 6, 16, 128, 217, 1,
    134, 138, 136, 225, 1, 136, 136, 0, 134, 200, 129, 154, 0, 0, 128, 182, 141, 4, 1, 132, 138, 128, 163,
    136, 128, 229, 24, 40, 9, 129, 152, 11, 130, 143, 131, 140, 1, 13, 128, 142, 128, 221, 128, 66, 95, 130,
    67, 177, 130, 156, 129, 157, 129, 157, 129, 191, 8, 55, 1, 138, 16, 32, 172, 132, 178, 128, 192, 129, 161,
    128, 245, 19, 129, 136, 5, 130, 64, 218, 9, 128, 185, 0, 48, 0, 1, 61, 137, 8, 166, 7, 173, 129, 139, 147,
    131, 175, 0, 32, 4, 128, 167, 136, 139, 129, 159, 25, 8, 130, 183, 0, 10, 0, 130, 185, 57, 129, 191, 133,
    209, 16, 140, 6, 24, 40, 17, 177, 190, 140, 128, 161, 228, 65, 188, 0, 130, 138, 130, 140, 130, 140, 130,
    140, 129, 139, 39, 129, 137, 1, 1, 132, 176, 32, 137, 0, 140, 128, 143, 140, 178, 160, 75, 138, 129, 240,
    130, 252, 128, 142, 128, 223, 159, 174, 128, 65, 212, 128, 163, 26, 36, 128, 220, 133, 220, 130, 96, 111,
    21, 128, 68, 225, 133, 65, 13, 128, 225, 24, 137, 0, 155, 131, 207, 129, 141, 161, 205, 128, 150, 130,
    229, 26, 15, 2, 3, 128, 152, 12, 128, 64, 150, 129, 153, 145, 140, 128, 165, 135, 152, 138, 173, 130, 175,
    1, 25, 129, 144, 128, 148, 129, 193, 41, 9, 129, 139, 7, 128, 162, 128, 138, 128, 178, 0, 17, 12, 8, 128,
    154, 128, 141, 12, 8, 128, 227, 132, 136, 130, 248, 1, 3, 128, 96, 79, 47, 128, 64, 146, 144, 66, 60, 143,
    16, 139, 143, 161, 1, 128, 64, 168, 6, 5, 128, 138, 128, 162, 0, 128, 174, 128, 172, 129, 194, 128, 148,
    130, 66, 0, 128, 64, 225, 128, 64, 148, 132, 68, 4, 40, 169, 128, 136, 66, 69, 16, 12, 131, 167, 19, 128,
    64, 164, 129, 66, 60, 131, 165, 128, 153, 32, 128, 65, 58, 129, 151, 128, 179, 133, 197, 138, 176, 131,
    250, 128, 181, 142, 168, 1, 129, 137, 130, 176, 25, 9, 3, 128, 137, 128, 177, 130, 163, 32, 135, 189, 128,
    139, 129, 179, 136, 137, 25, 128, 222, 17, 0, 13, 1, 128, 64, 156, 2, 135, 148, 129, 184, 10, 128, 164,
    50, 132, 197, 133, 140, 0, 0, 128, 141, 129, 212, 57, 16, 128, 150, 128, 211, 40, 3, 8, 129, 64, 237, 29,
    8, 129, 154, 129, 212, 57, 0, 129, 233, 0, 1, 40, 128, 228, 0, 1, 24, 132, 65, 2, 136, 1, 64, 255, 8, 3,
    128, 64, 143, 25, 11, 128, 159, 137, 167, 41, 31, 128, 136, 41, 130, 173, 140, 1, 64, 197, 0, 16, 128, 64,
    200, 48, 40, 128, 209, 149, 14, 1, 1, 249, 42, 0, 8, 48, 128, 199, 10, 0, 128, 192, 128, 65, 24, 129, 138,
    129, 179, 36, 0, 128, 150, 128, 84, 212, 144, 133, 142, 96, 44, 199, 139, 18, 73, 191, 132, 186, 134, 136,
    131, 65, 251, 130, 167, 129, 65, 225, 128, 190, 144, 191, 8, 129, 140, 129, 96, 63, 251, 24, 48, 129, 76,
    157, 8, 131, 82, 91, 173, 129, 150, 66, 31, 130, 136, 143, 14, 157, 131, 64, 147, 130, 71, 186, 182, 131,
    177, 56, 141, 128, 149, 32, 142, 69, 79, 48, 144, 14, 1, 4, 132, 189, 160, 128, 64, 159, 141, 65, 111,
    128, 188, 131, 65, 250, 132, 64, 253, 129, 64, 242, 1, 6, 12, 128, 136, 128, 65, 207, 134, 236, 135, 74,
    174, 132, 108, 12, 0, 128, 157, 223, 255, 64, 239>>

Case_Ignorable_index ==
  <<
    <<1470, 0>>, <<2046, 0>>, <<2642, 5>>, <<3009, 0>>, <<3458, 0>>, <<4159, 4>>, <<6100, 2>>, <<6878, 1>>,
    <<7401, 0>>, <<8306, 0>>, <<40982, 2>>, <<43206, 2>>, <<43714, 5>>, <<65072, 0>>, <<67505, 2>>,
    <<69457, 0>>, <<70096, 0>>, <<70751, 0>>, <<72004, 3>>, <<72872, 0>>, <<90410, 3>>, <<110591, 0>>,
    <<122905, 3>>, <<124672, 0>>, <<918000, 0>>>>

ID_Start_table ==
  <<
    192, 153, 133, 153, 174, 128, 137, 3, 4, 150, 128, 158, 128, 65, 201, 131, 139, 141, 38, 0, 128, 64, 128,
    32, 9, 24, 5, 0, 16, 0, 147, 128, 210, 128, 64, 138, 135, 64, 165, 128, 165, 8, 133, 168, 198, 154, 27,
    172, 170, 162, 8, 226, 0, 142, 14, 129, 137, 17, 128, 143, 0, 157, 156, 216, 138, 128, 151, 160, 136, 11,
    4, 149, 24, 136, 2, 128, 150, 152, 134, 138, 132, 151, 6, 143, 169, 185, 181, 16, 145, 6, 137, 142, 143,
    31, 9, 129, 149, 6, 0, 19, 16, 143, 128, 140, 8, 130, 141, 129, 137, 7, 43, 9, 149, 6, 1, 1, 1, 158, 24,
    128, 146, 130, 143, 136, 2, 128, 149, 6, 1, 4, 16, 145, 128, 142, 129, 150, 128, 138, 57, 9, 149, 6, 1, 4,
    16, 157, 8, 130, 142, 128, 144, 0, 42, 16, 26, 8, 0, 10, 10, 18, 139, 149, 128, 179, 56, 16, 150, 128,
    143, 16, 153, 16, 9, 129, 157, 3, 56, 16, 150, 128, 137, 4, 16, 157, 16, 129, 142, 129, 144, 136, 2, 128,
    168, 8, 143, 4, 23, 130, 151, 44, 145, 130, 151, 128, 136, 0, 14, 185, 175, 1, 139, 134, 185, 8, 0, 32,
    151, 0, 128, 137, 1, 136, 1, 32, 128, 148, 131, 159, 128, 190, 56, 163, 154, 132, 242, 170, 147, 128, 143,
    43, 26, 2, 14, 19, 140, 139, 128, 144, 165, 0, 32, 129, 170, 128, 65, 76, 3, 14, 0, 3, 129, 168, 3, 129,
    160, 3, 14, 0, 3, 129, 142, 128, 184, 3, 129, 194, 164, 143, 143, 213, 13, 130, 66, 107, 129, 144, 128,
    153, 132, 202, 130, 138, 134, 145, 140, 146, 141, 145, 141, 140, 2, 142, 179, 162, 3, 128, 194, 216, 134,
    168, 0, 132, 197, 137, 158, 176, 157, 12, 138, 171, 131, 153, 181, 150, 136, 180, 209, 128, 220, 174, 144,
    135, 181, 157, 140, 129, 137, 171, 153, 163, 168, 130, 137, 163, 129, 138, 132, 170, 10, 168, 24, 40, 10,
    4, 64, 191, 191, 65, 21, 13, 129, 165, 13, 15, 0, 0, 0, 128, 158, 129, 180, 6, 0, 18, 6, 19, 13, 131, 140,
    34, 6, 243, 128, 140, 128, 143, 140, 228, 3, 1, 137, 0, 13, 40, 0, 0, 128, 143, 11, 36, 24, 144, 168, 74,
    118, 64, 228, 43, 17, 139, 165, 0, 32, 129, 183, 48, 143, 150, 136, 48, 48, 48, 48, 48, 48, 48, 134, 66,
    37, 130, 152, 136, 52, 12, 131, 213, 28, 128, 217, 3, 132, 170, 128, 221, 144, 159, 175, 143, 65, 255, 89,
    191, 191, 96, 86, 140, 194, 173, 129, 65, 12, 130, 143, 137, 129, 147, 174, 143, 158, 129, 207, 166, 136,
    129, 230, 129, 209, 147, 144, 2, 3, 128, 150, 156, 179, 141, 177, 189, 42, 0, 129, 138, 155, 137, 150,
    152, 156, 134, 174, 155, 128, 143, 32, 137, 137, 32, 168, 150, 16, 135, 147, 150, 16, 130, 177, 0, 17, 12,
    8, 0, 151, 17, 138, 50, 139, 41, 41, 133, 136, 48, 48, 170, 128, 141, 133, 242, 156, 96, 43, 163, 139,
    150, 131, 176, 96, 33, 3, 65, 109, 129, 233, 165, 134, 139, 36, 0, 137, 128, 140, 4, 0, 1, 1, 128, 235,
    160, 65, 106, 145, 191, 129, 181, 167, 139, 243, 32, 64, 134, 163, 153, 133, 153, 138, 216, 21, 13, 13,
    10, 162, 139, 128, 153, 128, 146, 1, 128, 142, 129, 141, 161, 250, 196, 180, 65, 10, 156, 130, 176, 174,
    159, 140, 157, 132, 165, 137, 157, 129, 163, 31, 4, 169, 64, 157, 145, 163, 131, 163, 131, 167, 135, 179,
    139, 138, 128, 142, 6, 1, 128, 138, 128, 142, 6, 1, 130, 179, 139, 65, 54, 136, 149, 137, 135, 151, 40,
    169, 128, 136, 196, 41, 0, 171, 1, 16, 129, 150, 137, 150, 136, 158, 192, 146, 1, 137, 149, 137, 153, 133,
    153, 165, 183, 41, 191, 128, 142, 24, 16, 156, 169, 156, 130, 156, 162, 56, 155, 154, 181, 137, 149, 137,
    146, 140, 145, 237, 200, 182, 178, 140, 178, 140, 163, 165, 155, 136, 150, 64, 249, 169, 41, 143, 133,
    183, 156, 137, 7, 149, 169, 145, 173, 148, 154, 150, 139, 180, 184, 9, 128, 140, 172, 159, 152, 153, 163,
    156, 1, 7, 162, 16, 139, 175, 141, 131, 148, 0, 128, 162, 145, 128, 152, 146, 129, 190, 48, 0, 24, 142,
    128, 137, 134, 174, 165, 57, 9, 149, 6, 1, 4, 16, 145, 128, 139, 132, 157, 137, 0, 8, 128, 165, 0, 152, 0,
    128, 171, 180, 145, 131, 147, 130, 157, 175, 147, 8, 128, 64, 183, 174, 168, 131, 163, 175, 147, 128, 186,
    170, 140, 128, 198, 154, 164, 134, 64, 184, 171, 243, 191, 158, 57, 1, 56, 8, 151, 142, 0, 128, 221, 57,
    166, 143, 0, 128, 155, 128, 137, 167, 48, 148, 128, 138, 173, 146, 128, 145, 200, 64, 198, 160, 158, 136,
    128, 164, 144, 128, 176, 157, 239, 48, 8, 165, 148, 128, 152, 40, 8, 159, 141, 128, 150, 171, 65, 3, 146,
    142, 0, 140, 128, 161, 251, 128, 206, 67, 153, 229, 238, 144, 64, 195, 74, 75, 224, 142, 68, 47, 144, 133,
    152, 79, 154, 132, 66, 70, 90, 184, 157, 70, 225, 66, 56, 134, 158, 144, 206, 144, 157, 145, 175, 143,
    131, 158, 148, 132, 146, 65, 175, 172, 64, 210, 191, 159, 152, 129, 152, 171, 202, 32, 193, 140, 191, 8,
    128, 141, 132, 136, 92, 213, 168, 159, 224, 242, 96, 33, 252, 24, 48, 8, 65, 34, 142, 128, 156, 17, 128,
    141, 31, 65, 139, 73, 3, 234, 132, 140, 130, 136, 134, 137, 87, 101, 212, 128, 198, 1, 8, 9, 11, 128, 139,
    0, 6, 128, 192, 3, 15, 6, 128, 155, 3, 4, 0, 22, 128, 65, 83, 129, 152, 128, 152, 128, 158, 128, 152, 128,
    158, 128, 152, 128, 158, 128, 152, 128, 158, 128, 152, 7, 71, 51, 158, 45, 65, 4, 189, 64, 145, 172, 137,
    134, 143, 128, 65, 64, 157, 145, 171, 65, 227, 155, 64, 227, 157, 8, 64, 206, 158, 2, 1, 6, 12, 136, 129,
    64, 223, 48, 24, 8, 142, 128, 64, 196, 186, 195, 48, 68, 179, 24, 154, 1, 0, 8, 128, 137, 3, 0, 0, 40, 24,
    0, 0, 2, 1, 0, 8, 0, 0, 0, 0, 1, 0, 11, 6, 3, 3, 0, 128, 137, 128, 144, 34, 4, 128, 144, 81, 67, 96, 166,
    223, 159, 81, 29, 129, 86, 141, 129, 93, 48, 142, 66, 109, 73, 161, 66, 29, 69, 225, 83, 74, 132, 96, 33,
    41>>

ID_Start_index ==
  <<
    <<1014, 1>>, <<1958, 0>>, <<2473, 1>>, <<2737, 0>>, <<3002, 1>>, <<3387, 1>>, <<3783, 1>>, <<4681, 0>>,
    <<5787, 0>>, <<6572, 0>>, <<7616, 4>>, <<8320, 1>>, <<11632, 0>>, <<12800, 0>>, <<43014, 0>>,
    <<43639, 0>>, <<55292, 0>>, <<65277, 2>>, <<66257, 0>>, <<66994, 1>>, <<67830, 0>>, <<68681, 0>>,
    <<69750, 0>>, <<70367, 1>>, <<70856, 2>>, <<72002, 1>>, <<73009, 3>>, <<77809, 2>>, <<93048, 0>>,
    <<110883, 5>>, <<119981, 0>>, <<120687, 0>>, <<124398, 0>>, <<126520, 0>>, <<173792, 2>>, <<210042, 0>>>>

ID_Continue1_table ==
  <<
    175, 137, 164, 128, 214, 128, 66, 71, 239, 150, 128, 64, 250, 132, 65, 8, 172, 0, 1, 1, 0, 199, 138, 175,
    158, 40, 228, 49, 41, 8, 25, 137, 150, 128, 157, 154, 218, 138, 142, 137, 160, 136, 136, 128, 151, 24,
    136, 2, 4, 170, 130, 186, 136, 169, 151, 128, 160, 181, 16, 145, 6, 137, 9, 137, 144, 130, 183, 0, 49, 9,
    130, 136, 128, 137, 9, 137, 141, 1, 130, 183, 0, 35, 9, 18, 128, 147, 139, 16, 138, 130, 183, 0, 56, 16,
    130, 147, 9, 137, 137, 40, 130, 183, 0, 49, 9, 22, 130, 137, 9, 137, 145, 128, 186, 34, 16, 131, 136, 128,
    141, 137, 143, 132, 182, 0, 48, 16, 30, 129, 138, 9, 137, 144, 130, 183, 0, 48, 16, 30, 129, 138, 9, 137,
    16, 139, 131, 182, 8, 48, 16, 131, 136, 128, 137, 9, 137, 144, 130, 197, 3, 40, 0, 61, 137, 9, 188, 1,
    134, 139, 56, 137, 214, 1, 136, 138, 48, 137, 189, 13, 137, 138, 0, 0, 3, 129, 176, 147, 1, 132, 138, 128,
    163, 136, 128, 227, 147, 128, 137, 139, 27, 16, 17, 50, 131, 140, 139, 128, 142, 66, 190, 130, 136, 136,
    67, 159, 131, 155, 130, 156, 129, 157, 129, 191, 159, 136, 1, 137, 160, 16, 138, 64, 142, 128, 245, 139,
    131, 139, 137, 137, 255, 138, 187, 132, 184, 137, 128, 156, 129, 138, 133, 137, 149, 141, 128, 158, 129,
    139, 147, 132, 174, 144, 138, 137, 144, 136, 139, 130, 157, 140, 129, 137, 171, 141, 175, 147, 135, 137,
    133, 137, 245, 16, 148, 24, 40, 10, 64, 197, 191, 66, 11, 129, 176, 129, 146, 128, 250, 140, 24, 130, 139,
    75, 253, 130, 64, 140, 128, 223, 159, 66, 41, 133, 232, 129, 223, 128, 96, 117, 35, 137, 196, 3, 137, 159,
    129, 207, 129, 65, 15, 2, 3, 128, 150, 35, 128, 210, 129, 177, 145, 137, 137, 133, 145, 140, 138, 155,
    135, 152, 140, 171, 131, 174, 141, 142, 137, 138, 128, 137, 137, 174, 141, 139, 7, 9, 137, 160, 130, 177,
    0, 17, 12, 8, 128, 168, 36, 129, 64, 235, 56, 9, 137, 96, 79, 35, 128, 66, 224, 143, 143, 143, 17, 151,
    130, 64, 191, 137, 164, 128, 164, 128, 66, 150, 128, 64, 225, 128, 64, 148, 132, 65, 36, 137, 69, 86, 16,
    12, 131, 167, 19, 128, 64, 164, 129, 66, 60, 31, 137, 133, 137, 158, 132, 65, 60, 129, 204, 133, 197, 138,
    176, 131, 249, 130, 180, 142, 158, 138, 9, 137, 131, 172, 138, 48, 172, 137, 42, 163, 141, 128, 137, 33,
    171, 128, 139, 130, 175, 141, 59, 128, 139, 209, 139, 40, 8, 64, 156, 139, 132, 137, 43, 182, 8, 49, 9,
    130, 136, 128, 137, 9, 50, 132, 194, 136, 0, 8, 3, 4, 0, 141, 129, 209, 145, 136, 137, 24, 208, 147, 139,
    137, 64, 212, 49, 136, 154, 129, 209, 144, 142, 137, 208, 140, 135, 137, 133, 147, 184, 142, 131, 137, 64,
    241, 142, 64, 164, 137, 197, 40, 9, 24, 0, 129, 139, 137, 246, 49, 50, 128, 155, 137, 167, 48, 31, 128,
    136, 138, 173, 143, 64, 197, 135, 64, 135, 137, 180, 56, 135, 143, 137, 183, 149, 128, 141, 249, 42, 0, 8,
    48, 7, 137, 175, 32, 8, 39, 137, 181, 137, 65, 8, 131, 136, 8, 128, 175, 50, 132, 140, 138, 84, 228, 5,
    142, 96, 44, 199, 155, 73, 37, 137, 213, 137, 165, 132, 186, 134, 152, 137, 66, 21, 137, 65, 212, 0, 182,
    51, 208, 128, 138, 129, 96, 76, 170, 129, 80, 80, 137, 66, 5, 173, 129, 150, 66, 29, 34, 47, 57, 134, 157,
    131, 64, 147, 130, 69, 136, 177, 65, 255, 182, 131, 177, 56, 141, 128, 149, 32, 142, 69, 79, 48, 144, 14,
    1, 4, 227, 128, 64, 159, 134, 136, 137, 65, 99, 128, 188, 141, 65, 241, 141, 64, 243, 8, 137, 64, 231, 1,
    6, 12, 128, 65, 217, 134, 236, 52, 137, 82, 149, 137, 108, 5, 5, 64, 239>>

ID_Continue1_index ==
  <<
    <<1786, 0>>, <<2416, 0>>, <<2800, 2>>, <<3159, 0>>, <<3568, 3>>, <<4039, 1>>, <<6122, 2>>, <<6892, 0>>,
    <<8206, 2>>, <<42622, 1>>, <<43482, 1>>, <<65040, 2>>, <<68160, 2>>, <<69819, 1>>, <<70478, 2>>,
    <<71134, 0>>, <<72165, 0>>, <<73050, 0>>, <<92917, 1>>, <<119180, 3>>, <<123191, 2>>, <<918000, 0>>>>
================================================================================
